---- MODULE Spec2Model ----
(***************************************************************************)
(* A model of the WikiDatabase of sasquatch-mcp (src/src/wiki-parser.ts,   *)
(* lines 236-567, the file database.ts): the pages table, its FTS5 text    *)
(* index kept by triggers, the upsert / lookup / search operations, and    *)
(* the SQLite behaviour these operations rely on (UNIQUE with the BINARY   *)
(* collation, COLLATE NOCASE, ON CONFLICT DO UPDATE, transactions of       *)
(* better-sqlite3, the unicode61 tokenizer and the bm25 rank of FTS5).     *)
(*                                                                         *)
(* Strings are sequences of one-character strings, so that case folding,   *)
(* tokenizing, JSON encoding and query sanitizing are computed character   *)
(* by character as the code and SQLite compute them.                       *)
(***************************************************************************)
EXTENDS Integers, Sequences, FiniteSets, Bags, TLC

VARIABLES pages, fts, seq, clock, tx, last, obs, supplied, categories, parse,
          scrape

vars ==
  <<pages, fts, seq, clock, tx, last, obs, supplied, categories, parse,
    scrape>>

\* ------------------------------------------------------------------------
\* Bounds of the model
\* ------------------------------------------------------------------------

\* statements that reach the pages table in one run (caps AUTOINCREMENT)
MaxWrites == 3

\* seconds the clock behind datetime('now') may advance
MaxClock == 1

\* largest limit value passed to searchPages
MaxLimit == 2

\* the SQL NULL / JavaScript null
Null == <<"null">>

\* ------------------------------------------------------------------------
\* Characters and strings
\* ------------------------------------------------------------------------

\* the printable ASCII characters in the order of their codes, from 32
\* (the grave accent, code 96, is written u96)
PrintableAscii ==
  <<
    " ", "!", "\"", "#", "$", "%", "&", "'", "(", ")",
    "*", "+", ",", "-", ".", "/", "0", "1", "2", "3",
    "4", "5", "6", "7", "8", "9", ":", ";", "<", "=",
    ">", "?", "@", "A", "B", "C", "D", "E", "F", "G",
    "H", "I", "J", "K", "L", "M", "N", "O", "P", "Q",
    "R", "S", "T", "U", "V", "W", "X", "Y", "Z", "[",
    "\\", "]", "^", "_", "u96", "a", "b", "c", "d", "e",
    "f", "g", "h", "i", "j", "k", "l", "m", "n", "o",
    "p", "q", "r", "s", "t", "u", "v", "w", "x", "y",
    "z", "{", "|", "}", "~"
  >>

\* a character above ASCII or a control character without a notation of
\* its own is written u<code>
OtherChar(code) == "u" \o ToString(code)

\* the code of every printable ASCII character
AsciiCode ==
  [c \in {PrintableAscii[i] : i \in DOMAIN PrintableAscii} |->
     31 + (CHOOSE i \in DOMAIN PrintableAscii : PrintableAscii[i] = c)]

\* the UTF-16 code of a character of the model that has a notation of its
\* own; the BINARY collation orders ASCII strings by it
CodePoint(c) ==
  IF c \in DOMAIN AsciiCode THEN AsciiCode[c]
  ELSE IF c = "\t" THEN 9
  ELSE IF c = "\n" THEN 10
  ELSE IF c = "\r" THEN 13
  ELSE 0

\* String.fromCharCode(code) for 0 <= code < 65536
FromCharCode(code) ==
  IF code \in 32..126 THEN PrintableAscii[code - 31]
  ELSE IF code = 9 THEN "\t"
  ELSE IF code = 10 THEN "\n"
  ELSE IF code = 13 THEN "\r"
  ELSE OtherChar(code)

\* the letters A-Z (codes 65-90) and a-z (codes 97-122), and the digits
UpperCase == {FromCharCode(code) : code \in 65..90}

LowerCase == {FromCharCode(code) : code \in 97..122}

Digits == {"0", "1", "2", "3", "4", "5", "6", "7", "8", "9"}

\* ASCII case folding of one character (SQLite NOCASE, unicode61,
\* toLowerCase and the i flag on the characters of the model)
ToLower(c) == IF c \in UpperCase THEN FromCharCode(AsciiCode[c] + 32) ELSE c

\* SQLite's NOCASE collation key: the string with A-Z folded to a-z
NoCase(s) == [i \in DOMAIN s |-> ToLower(s[i])]

\* JavaScript \w: [A-Za-z0-9_]
IsWordChar(c) == c \in UpperCase \cup LowerCase \cup Digits \cup {"_"}

\* the white space of JavaScript (\s, trim), by its codes
WhiteSpace ==
  {FromCharCode(code) :
     code \in {9, 10, 11, 12, 13, 32, 160, 5760, 8232, 8233, 8239, 8287,
               12288, 65279} \cup (8192..8202)}

\* JavaScript \s
IsSpace(c) == c \in WhiteSpace

\* the line terminators of JavaScript: what . does not match and what the
\* m flag takes for the end of a line
LineTerminators == {"\n", "\r", OtherChar(8232), OtherChar(8233)}


RECURSIVE BinaryLess(_, _)
BinaryLess(s, t) ==
  IF t = <<>> THEN FALSE
  ELSE IF s = <<>> THEN TRUE
  ELSE IF CodePoint(Head(s)) # CodePoint(Head(t))
       THEN CodePoint(Head(s)) < CodePoint(Head(t))
  ELSE BinaryLess(Tail(s), Tail(t))

RECURSIVE Concat(_)
Concat(ss) == IF ss = <<>> THEN <<>> ELSE Head(ss) \o Concat(Tail(ss))

\* ------------------------------------------------------------------------
\* JSON text of a categories list (JSON.stringify / JSON.parse)
\* ------------------------------------------------------------------------

\* the outcome of JSON.parse raising a SyntaxError
JsonThrew == [ok |-> FALSE, value |-> <<>>]

\* a JSON string literal: quotes around the text, '"' and '\' escaped
JsonQuote(s) ==
  <<"\"">> \o
  Concat([i \in DOMAIN s |->
            IF s[i] \in {"\"", "\\"} THEN <<"\\", s[i]>> ELSE <<s[i]>>]) \o
  <<"\"">>

RECURSIVE JsonJoin(_)
JsonJoin(list) ==
  IF list = <<>> THEN <<>>
  ELSE IF Len(list) = 1 THEN JsonQuote(list[1])
  ELSE JsonQuote(Head(list)) \o <<",">> \o JsonJoin(Tail(list))

\* JSON.stringify(page.categories)
JsonStringify(list) == <<"[">> \o JsonJoin(list) \o <<"]">>

\* scans a string literal whose opening quote is before position i;
\* the result is the text and the position after the closing quote
RECURSIVE JsonScanString(_, _, _)
JsonScanString(t, i, acc) ==
  IF i > Len(t) THEN [ok |-> FALSE, value |-> <<>>, next |-> i]
  ELSE IF t[i] = "\"" THEN [ok |-> TRUE, value |-> acc, next |-> i + 1]
  ELSE IF t[i] = "\\"
       THEN IF i + 1 <= Len(t) /\ t[i + 1] \in {"\"", "\\"}
            THEN JsonScanString(t, i + 2, Append(acc, t[i + 1]))
            ELSE [ok |-> FALSE, value |-> <<>>, next |-> i]
  ELSE JsonScanString(t, i + 1, Append(acc, t[i]))

\* parses the elements of an array from position i, a string literal first
RECURSIVE JsonParseElems(_, _, _)
JsonParseElems(t, i, acc) ==
  IF i > Len(t) \/ t[i] # "\"" THEN JsonThrew
  ELSE LET str == JsonScanString(t, i + 1, <<>>) IN
       IF ~str.ok \/ str.next > Len(t) THEN JsonThrew
       ELSE IF t[str.next] = "]"
            THEN IF str.next = Len(t)
                 THEN [ok |-> TRUE, value |-> Append(acc, str.value)]
                 ELSE JsonThrew
       ELSE IF t[str.next] = ","
            THEN JsonParseElems(t, str.next + 1, Append(acc, str.value))
       ELSE JsonThrew

\* JSON.parse of the text of an array of strings
JsonParse(t) ==
  IF Len(t) < 2 \/ t[1] # "[" THEN JsonThrew
  ELSE IF t[2] = "]"
       THEN (IF Len(t) = 2 THEN [ok |-> TRUE, value |-> <<>>] ELSE JsonThrew)
  ELSE JsonParseElems(t, 2, <<>>)

\* ------------------------------------------------------------------------
\* The unicode61 tokenizer of FTS5
\* ------------------------------------------------------------------------

\* the terms of a text: the maximal runs of token characters, case folded
RECURSIVE TokenizeFrom(_, _, _)
TokenizeFrom(s, cur, acc) ==
  IF s = <<>> THEN (IF cur = <<>> THEN acc ELSE Append(acc, cur))
  ELSE IF Head(s) \in UpperCase \cup LowerCase \cup Digits
       THEN TokenizeFrom(Tail(s), Append(cur, ToLower(Head(s))), acc)
  ELSE TokenizeFrom(Tail(s), <<>>, IF cur = <<>> THEN acc ELSE Append(acc, cur))

Tokenize(s) == TokenizeFrom(s, <<>>, <<>>)

\* ------------------------------------------------------------------------
\* The database: the pages table, the FTS5 index, sqlite_sequence
\* ------------------------------------------------------------------------

\* the database as one value: what a transaction copies and restores
Db(p, f, s) == [pages |-> p, fts |-> f, seq |-> s]

EmptyDb == Db({}, EmptyBag, 0)

\* the index entry of a row: INSERT INTO pages_fts(rowid, title, content)
FtsEntry(row) ==
  [rowid |-> row.id, title |-> Tokenize(row.title),
   content |-> Tokenize(row.content)]

\* trigger pages_ai: index the new row
TriggerAfterInsert(f, new) == f (+) SetToBag({FtsEntry(new)})

\* pages_au without its 'delete' command
TriggerAfterUpdateKeepsOld(f, old, new) == f (+) SetToBag({FtsEntry(new)})

\* trigger pages_au: drop the entry of the old values, index the new ones
TriggerAfterUpdate(f, old, new) ==
  (f (-) SetToBag({FtsEntry(old)})) (+) SetToBag({FtsEntry(new)})

\* the rows that conflict with a title under UNIQUE(title): the column has
\* no COLLATE clause, so the index compares with BINARY (exact) equality
ConflictRows(p, title) == {r \in p : r.title = title}

\* ------------------------------------------------------------------------
\* The upsert statement and the transaction of better-sqlite3
\* ------------------------------------------------------------------------

\* the row an INSERT of page makes
NewRow(id, page, now) ==
  [id |-> id, title |-> page.title, content |-> page.content,
   url |-> page.url, categories |-> JsonStringify(page.categories),
   last_modified |-> page.last_modified, scraped_at |-> now]

\* the row ON CONFLICT(title) DO UPDATE SET ... makes of the row old
UpdatedRow(old, page, now) ==
  [old EXCEPT !.content = page.content, !.url = page.url,
              !.categories = JsonStringify(page.categories),
              !.last_modified = page.last_modified, !.scraped_at = now]

\* stmt.run of INSERT ... ON CONFLICT(title) DO UPDATE on the database db:
\* a NULL in a NOT NULL column raises and changes nothing; a row of the same
\* title is updated in place (AFTER UPDATE trigger), otherwise a row is
\* inserted (AFTER INSERT trigger). AUTOINCREMENT hands out a fresh rowid in
\* both cases (SQLite allocates it before it detects the conflict).
UpsertStmt(db, page, now) ==
  IF page.title = Null \/ page.content = Null \/ page.url = Null
  THEN [threw |-> TRUE, db |-> db]
  ELSE LET hit == ConflictRows(db.pages, page.title) IN
       IF hit = {}
       THEN LET new == NewRow(db.seq + 1, page, now) IN
            [threw |-> FALSE,
             db |-> Db(db.pages \cup {new},
                       TriggerAfterInsert(db.fts, new), db.seq + 1)]
       ELSE LET old == CHOOSE r \in hit : TRUE
                new == UpdatedRow(old, page, now) IN
            [threw |-> FALSE,
             db |-> Db((db.pages \ {old}) \cup {new},
                       TriggerAfterUpdate(db.fts, old, new), db.seq + 1)]

\* the statements run outside a transaction: each is committed at once
VisibleAtOnce(committed, work) == work

\* what other connections see after a statement of an open transaction:
\* the committed database, the work of the transaction stays private
VisibleInTransaction(committed, work) == committed

\* COMMIT publishes the work of the transaction
Commit(committed, work) == work

\* no ROLLBACK: the statements before the failing one stay
RollbackKeepsWork(committed, work) == work

\* ROLLBACK, which db.transaction issues when its function raises,
\* restores the database of the BEGIN
Rollback(committed, work) == committed

\* the function given to db.transaction: stmt.run for each page in order,
\* each with its own datetime('now'); the first exception ends the loop
RECURSIVE TransactionBody(_, _, _)
TransactionBody(work, batch, nows) ==
  IF batch = <<>> THEN [threw |-> FALSE, db |-> work]
  ELSE LET r == UpsertStmt(work, Head(batch), Head(nows)) IN
       IF r.threw THEN [threw |-> TRUE, db |-> work]
       ELSE TransactionBody(r.db, Tail(batch), Tail(nows))

\* transaction(pages): BEGIN, the body, then COMMIT, or ROLLBACK and rethrow
TransactionRun(db, batch, nows) ==
  LET r == TransactionBody(db, batch, nows) IN
  IF r.threw THEN [threw |-> TRUE, db |-> Rollback(db, r.db)]
  ELSE [threw |-> FALSE, db |-> Commit(db, r.db)]

\* ------------------------------------------------------------------------
\* The read operations of WikiDatabase
\* ------------------------------------------------------------------------

\* the row of the least rowid in a non-empty set of rows: the first row a
\* scan of the table yields
FirstRow(rows) == CHOOSE r \in rows : \A o \in rows : r.id <= o.id

\* the rows of SELECT * FROM pages WHERE title = ? COLLATE NOCASE
NoCaseRows(p, title) == {r \in p : NoCase(r.title) = NoCase(title)}

\* getPage: stmt.get yields the first matching row, none gives null; the
\* categories text is parsed back into a list
getPage(p, title) ==
  LET hit == NoCaseRows(p, title) IN
  IF hit = {} THEN [found |-> FALSE, threw |-> FALSE]
  ELSE LET row == FirstRow(hit)
           cats == JsonParse(IF row.categories = <<>>
                             THEN <<"[", "]">> ELSE row.categories) IN
       IF ~cats.ok THEN [found |-> FALSE, threw |-> TRUE]
       ELSE [found |-> TRUE, threw |-> FALSE, id |-> row.id,
             title |-> row.title, content |-> row.content, url |-> row.url,
             categories |-> cats.value,
             last_modified |-> row.last_modified,
             scraped_at |-> row.scraped_at]

\* getPageScrapedAt: SELECT scraped_at FROM pages WHERE title = ?, which
\* compares with the BINARY collation of the column
getPageScrapedAt(p, title) ==
  LET hit == {r \in p : r.title = title} IN
  IF hit = {} THEN [found |-> FALSE]
  ELSE [found |-> TRUE, scraped_at |-> FirstRow(hit).scraped_at]

\* the count of the titles that differ when case is ignored
CountIgnoringCase(p) == Cardinality({NoCase(r.title) : r \in p})

\* getPageCount: SELECT COUNT(*) FROM pages
getPageCount(p) == Cardinality(p)

\* a set of strings as the sequence ORDER BY yields (BINARY collation)
RECURSIVE SortStrings(_)
SortStrings(set) ==
  IF set = {} THEN <<>>
  ELSE LET least == CHOOSE x \in set : \A y \in set : ~BinaryLess(y, x) IN
       <<least>> \o SortStrings(set \ {least})

\* getAllTitles: SELECT title FROM pages ORDER BY title
getAllTitles(p) == SortStrings({r.title : r \in p})

\* ------------------------------------------------------------------------
\* The categories table: refreshCategories, getCategories and
\* getPagesByCategory
\* ------------------------------------------------------------------------

\* the sum of the values of a function over a set of its arguments
RECURSIVE SumOver(_, _)
SumOver(set, f) ==
  IF set = {} THEN 0
  ELSE LET x == CHOOSE y \in set : TRUE IN f[x] + SumOver(set \ {x}, f)

\* the list JSON.parse(page.categories || "[]") gives for a row of pages;
\* a text that does not parse is skipped (the empty catch)
ParsedCategories(row) ==
  LET parsed == JsonParse(IF row.categories = <<>>
                          THEN <<"[", "]">> ELSE row.categories) IN
  IF parsed.ok THEN parsed.value ELSE <<>>

\* the Map counts of a database that holds no page
CountsOfNoPage(p) == [n \in {} |-> 0]

\* the Map counts after the loops over the pages and their lists: every
\* element of every list adds one to the count of its name
CategoryCounts(p) ==
  LET names == UNION {{ParsedCategories(r)[i] :
                         i \in DOMAIN ParsedCategories(r)} : r \in p}
      times(r, n) == Cardinality({i \in DOMAIN ParsedCategories(r) :
                                    ParsedCategories(r)[i] = n})
  IN [n \in names |-> SumOver(p, [r \in p |-> times(r, n)])]

\* DELETE FROM categories
DeleteCategories(table) == {}

\* INSERT OR IGNORE INTO categories (name, page_count): a name the table
\* holds already is left as it is
InsertOrIgnore(table, name, count) ==
  IF \E row \in table : row.name = name THEN table
  ELSE table \cup {[name |-> name, page_count |-> count]}

\* the transaction of the inserts, one for each entry of counts
RECURSIVE InsertCounts(_, _, _)
InsertCounts(table, counts, names) ==
  IF names = {} THEN table
  ELSE LET n == CHOOSE x \in names : TRUE IN
       InsertCounts(InsertOrIgnore(table, n, counts[n]), counts, names \ {n})

\* the old rows stay and the new counts are added to them
DeleteNothingAndAdd(table, p) ==
  LET counts == CategoryCounts(p)
      old(n) == IF \E row \in table : row.name = n
                THEN (CHOOSE row \in table : row.name = n).page_count ELSE 0
  IN {row \in table : row.name \notin DOMAIN counts} \cup
     {[name |-> n, page_count |-> old(n) + counts[n]] : n \in DOMAIN counts}

\* refreshCategories: the categories table afterwards, with the rows p of
\* pages
refreshCategories(table, p) ==
  LET counts == CategoryCounts(p) IN
  InsertCounts(DeleteCategories(table), counts, DOMAIN counts)

\* getCategories: SELECT name, page_count FROM categories
\* WHERE page_count > 0 ORDER BY name
getCategories(table) ==
  LET shown == {row \in table : row.page_count > 0}
      names == SortStrings({row.name : row \in shown})
  IN [i \in DOMAIN names |-> CHOOSE row \in shown : row.name = names[i]]

\* SQLite's LIKE: % is any text, _ any one character, letters match in
\* either case
RECURSIVE Like(_, _)
Like(pattern, text) ==
  IF pattern = <<>> THEN text = <<>>
  ELSE IF Head(pattern) = "%"
       THEN Like(Tail(pattern), text) \/ (text # <<>> /\ Like(pattern, Tail(text)))
  ELSE /\ text # <<>>
       /\ Head(pattern) = "_" \/ ToLower(Head(pattern)) = ToLower(Head(text))
       /\ Like(Tail(pattern), Tail(text))

\* getPagesByCategory: SELECT title FROM pages WHERE categories LIKE
\* @pattern ORDER BY title
getPagesByCategory(p, category) ==
  LET \* category.replace(/["%_\\]/g, "")
      stripped ==
        SelectSeq(category, LAMBDA c : c \notin {"\"", "%", "_", "\\"})
      \* the LIKE pattern `%"${...}"%`
      pattern == <<"%", "\"">> \o stripped \o <<"\"", "%">>
  IN SortStrings({r.title : r \in {x \in p : Like(pattern, x.categories)}})

\* ------------------------------------------------------------------------
\* searchPages: the sanitized query, the FTS5 MATCH and its bm25 rank
\* ------------------------------------------------------------------------

\* no character of the query is replaced
ReplaceNothing(query) == query

\* every character that is not allowed is deleted
ReplaceByDeleting(query) ==
  SelectSeq(query, LAMBDA c : IsWordChar(c) \/ IsSpace(c) \/ c = "-")

\* query.replace(/[^\w\s-]/g, " ")
ReplaceDisallowed(query) ==
  [i \in DOMAIN query |->
     IF IsWordChar(query[i]) \/ IsSpace(query[i]) \/ query[i] = "-"
     THEN query[i] ELSE " "]

\* .split(/\s+/).filter((t) => t.length > 0)
RECURSIVE SplitFrom(_, _, _)
SplitFrom(s, cur, acc) ==
  IF s = <<>> THEN (IF cur = <<>> THEN acc ELSE Append(acc, cur))
  ELSE IF IsSpace(Head(s))
       THEN SplitFrom(Tail(s), <<>>, IF cur = <<>> THEN acc ELSE Append(acc, cur))
  ELSE SplitFrom(Tail(s), Append(cur, Head(s)), acc)

\* the tokens of sanitizeFtsQuery
QueryTokens(query) == SplitFrom(ReplaceDisallowed(query), <<>>, <<>>)

\* tokens.map((t) => `"${t}"`).join(" ")
RECURSIVE QuoteJoin(_)
QuoteJoin(tokens) ==
  IF tokens = <<>> THEN <<>>
  ELSE IF Len(tokens) = 1 THEN <<"\"">> \o tokens[1] \o <<"\"">>
  ELSE <<"\"">> \o Head(tokens) \o <<"\"", " ">> \o QuoteJoin(Tail(tokens))

\* the text "{title content} : "
ColumnFilterText ==
  <<"{", "t", "i", "t", "l", "e", " ", "c", "o", "n", "t", "e", "n", "t",
    "}", " ", ":", " ">>

\* sanitizeFtsQuery: the empty string for no token, else the column filter
\* followed by the quoted tokens
sanitizeFtsQuery(query) ==
  LET tokens == QueryTokens(query) IN
  IF Len(tokens) = 0 THEN <<>> ELSE ColumnFilterText \o QuoteJoin(tokens)

\* the position of the first occurrence of character c in t at or after i,
\* 0 for none
RECURSIVE IndexOf(_, _, _)
IndexOf(t, c, i) ==
  IF i > Len(t) THEN 0 ELSE IF t[i] = c THEN i ELSE IndexOf(t, c, i + 1)

\* the first position at or after i that holds no space
RECURSIVE SkipSpaces(_, _)
SkipSpaces(t, i) ==
  IF i <= Len(t) /\ t[i] = " " THEN SkipSpaces(t, i + 1) ELSE i

\* an FTS5 syntax error
FtsSyntaxError == [ok |-> FALSE, colset |-> {}, phrases |-> <<>>]

\* the quoted strings of an FTS5 query from position i on, each tokenized
\* into the terms of a phrase (a string without a token character gives a
\* phrase of no term); sanitizeFtsQuery emits no bareword and no operator
RECURSIVE FtsParsePhrases(_, _, _)
FtsParsePhrases(t, i, acc) ==
  LET j == SkipSpaces(t, i) IN
  IF j > Len(t) THEN [ok |-> TRUE, phrases |-> acc]
  ELSE IF t[j] # "\"" THEN [ok |-> FALSE, phrases |-> <<>>]
  ELSE LET close == IndexOf(t, "\"", j + 1) IN
       IF close = 0 THEN [ok |-> FALSE, phrases |-> <<>>]
       ELSE FtsParsePhrases(t, close + 1,
                            Append(acc, Tokenize(SubSeq(t, j + 1, close - 1))))

\* the FTS5 parse of a MATCH text "{col col} : phrase phrase ...": by the
\* grammar of FTS5 the column filter binds to the first phrase only, the
\* phrases are joined by an implicit AND
FtsParse(t) ==
  IF t = <<>> \/ t[1] # "{" THEN FtsSyntaxError
  ELSE LET close == IndexOf(t, "}", 2) IN
       IF close = 0 THEN FtsSyntaxError
       ELSE LET colon == SkipSpaces(t, close + 1) IN
            IF colon > Len(t) \/ t[colon] # ":" THEN FtsSyntaxError
            ELSE LET ps == FtsParsePhrases(t, colon + 1, <<>>)
                     names == SplitFrom(SubSeq(t, 2, close - 1), <<>>, <<>>)
                 IN IF ~ps.ok \/ ps.phrases = <<>> THEN FtsSyntaxError
                    ELSE [ok |-> TRUE,
                          colset |-> {names[k] : k \in DOMAIN names},
                          phrases |-> ps.phrases]

TitleColumn == <<"t", "i", "t", "l", "e">>

ContentColumn == <<"c", "o", "n", "t", "e", "n", "t">>

\* how often a phrase (a non-empty sequence of terms) occurs in the terms
\* of one column
PhraseCount(phrase, terms) ==
  Cardinality({i \in 1..(Len(terms) - Len(phrase) + 1) :
                 SubSeq(terms, i, i + Len(phrase) - 1) = phrase})

\* the occurrences of phrase number k of the query in an index entry: the
\* first phrase counts in the columns of the column filter, the others in
\* every column
PhraseHits(parsed, k, entry) ==
  LET phrase == parsed.phrases[k]
      inTitle == k > 1 \/ TitleColumn \in parsed.colset
      inContent == k > 1 \/ ContentColumn \in parsed.colset
  IN (IF inTitle THEN PhraseCount(phrase, entry.title) ELSE 0) +
     (IF inContent THEN PhraseCount(phrase, entry.content) ELSE 0)

\* the phrases of the query that have a term: FTS5 drops the others
RealPhrases(parsed) == {k \in DOMAIN parsed.phrases : parsed.phrases[k] # <<>>}

\* the phrases joined by OR
FtsMatchesAny(parsed, entry) ==
  \E k \in RealPhrases(parsed) : PhraseHits(parsed, k, entry) > 0

\* pages_fts MATCH query: every phrase that has a term occurs in the entry;
\* a query whose phrases all have no term matches nothing
FtsMatches(parsed, entry) ==
  /\ RealPhrases(parsed) # {}
  /\ \A k \in RealPhrases(parsed) : PhraseHits(parsed, k, entry) > 0

\* the number of terms of an index entry (all columns)
EntrySize(entry) == Len(entry.title) + Len(entry.content)

\* the inverse document frequency of bm25 in ten-thousandths for a phrase
\* that n of the N rows contain: ln((N - n + 0.5) / (n + 0.5)); 0 stands
\* for the value 1e-6 that FTS5 puts in place of a result that is not
\* positive
IdfScaled(N, n) ==
  CASE N = 3 /\ n = 1 -> 5108
    [] N = 4 /\ n = 1 -> 8473
    [] N = 5 /\ n = 1 -> 10986
    [] N = 5 /\ n = 2 -> 3365
    [] N = 6 /\ n = 1 -> 12993
    [] N = 6 /\ n = 2 -> 5878
    [] OTHER -> 0

\* the weight of the title column and of the content column in bm25: the
\* query asks for rank, which is bm25 with the default weight 1.0 for every
\* column; the "{title content} :" of the query is a column filter
TitleWeight == 1

ContentWeight == 1

\* the term frequency of bm25 for phrase k in an entry, column weights
\* applied
WeightedHits(parsed, k, entry) ==
  LET phrase == parsed.phrases[k]
      inTitle == k > 1 \/ TitleColumn \in parsed.colset
      inContent == k > 1 \/ ContentColumn \in parsed.colset
  IN (IF inTitle THEN TitleWeight * PhraseCount(phrase, entry.title) ELSE 0) +
     (IF inContent THEN ContentWeight * PhraseCount(phrase, entry.content)
      ELSE 0)

\* tf * (k1 + 1) / (tf + k1 * (1 - b + b * dl / avgdl)) with k1 = 1.2 and
\* b = 0.75, in ten-thousandths; avgdl is total / N
Bm25Term(tf, dl, N, total) ==
  (22 * tf * total * 10000) \div (10 * tf * total + 3 * total + 9 * N * dl)

\* what bm25 reads of the whole index: the number of rows, the number of
\* terms in all rows, and for each phrase the number of rows that hold it
Bm25Stats(parsed, index) ==
  LET entries == BagToSet(index) IN
  [N |-> Cardinality(entries),
   total |-> SumOver(entries, [e \in entries |-> EntrySize(e)]),
   nHit |-> [k \in RealPhrases(parsed) |->
               Cardinality({e \in entries : PhraseHits(parsed, k, e) > 0})]]

\* the bm25 score of an entry as a pair: the sum over the phrases of
\* idf * term, kept apart for the phrases with a positive idf (in units of
\* 1e-8) and for those with the idf 1e-6 (in units of 1e-10)
Bm25(parsed, entry, stats) ==
  LET real == RealPhrases(parsed)
      term == [k \in real |->
                 Bm25Term(WeightedHits(parsed, k, entry), EntrySize(entry),
                          stats.N, stats.total)]
      idf == [k \in real |-> IdfScaled(stats.N, stats.nHit[k])]
  IN [major |-> SumOver(real, [k \in real |-> idf[k] * term[k]]),
      minor |-> SumOver(real, [k \in real |->
                                 IF idf[k] = 0 THEN term[k] ELSE 0])]

\* ORDER BY rank: the higher bm25 score first; rows of equal score come in
\* the order of their rowid
RanksBefore(s1, id1, s2, id2) ==
  \/ s1.major > s2.major
  \/ s1.major = s2.major /\ s1.minor > s2.minor
  \/ s1.major = s2.major /\ s1.minor = s2.minor /\ id1 < id2

\* the matching rows in the order of ORDER BY rank; score gives the bm25
\* score of each
RECURSIVE RankedFrom(_, _)
RankedFrom(hits, score) ==
  IF hits = {} THEN <<>>
  ELSE LET best == CHOOSE h \in hits : \A o \in hits :
                     o = h \/ RanksBefore(score[h], h.row.id, score[o], o.row.id)
       IN <<best>> \o RankedFrom(hits \ {best}, score)

\* a LIMIT that yields one row more
LimitOffByOne(rows, n) ==
  IF n < 0 \/ n >= Len(rows) THEN rows ELSE SubSeq(rows, 1, n + 1)

\* LIMIT n: the first n rows; a negative n means no limit
Limit(rows, n) ==
  IF n < 0 \/ n >= Len(rows) THEN rows ELSE SubSeq(rows, 1, n)

\* searchPages(query, limit): no query is made for an empty sanitized
\* text; else the rows of pages_fts MATCH joined with their pages, in rank
\* order, at most LIMIT of them
searchPages(db, query, limit) ==
  LET ftsQuery == sanitizeFtsQuery(query) IN
  IF ftsQuery = <<>>
  THEN [issued |-> FALSE, match |-> <<>>, threw |-> FALSE, rows |-> <<>>]
  ELSE LET parsed == FtsParse(ftsQuery) IN
       IF ~parsed.ok
       THEN [issued |-> TRUE, match |-> ftsQuery, threw |-> TRUE,
             rows |-> <<>>]
       ELSE LET matched == {e \in BagToSet(db.fts) : FtsMatches(parsed, e)}
                joined == {h \in {[entry |-> e, row |-> r] :
                                    e \in matched, r \in db.pages} :
                             h.row.id = h.entry.rowid}
                stats == Bm25Stats(parsed, db.fts)
                score == [h \in joined |-> Bm25(parsed, h.entry, stats)]
                ranked == Limit(RankedFrom(joined, score), limit)
            IN [issued |-> TRUE, match |-> ftsQuery, threw |-> FALSE,
                rows |-> [i \in DOMAIN ranked |->
                            [title |-> ranked[i].row.title,
                             url |-> ranked[i].row.url,
                             \* Math.round(row.relevance_score * 1000)
                             \* / 1000, in thousandths
                             relevance_score |->
                               (score[ranked[i]].major + 50000)
                                 \div 100000]]]

\* ------------------------------------------------------------------------
\* parseWikitext: texts, their search and the replace of JavaScript
\* ------------------------------------------------------------------------

\* the text t has the word w at position i
At(t, i, w) ==
  /\ i >= 1
  /\ i + Len(w) - 1 <= Len(t)
  /\ SubSeq(t, i, i + Len(w) - 1) = w

\* the same, whatever the case of the letters (the i flag)
AtNoCase(t, i, w) ==
  /\ i >= 1
  /\ i + Len(w) - 1 <= Len(t)
  /\ NoCase(SubSeq(t, i, i + Len(w) - 1)) = NoCase(w)

\* the first position at or after i where t has the word w, 0 for none
RECURSIVE Find(_, _, _)
Find(t, w, i) ==
  IF i + Len(w) - 1 > Len(t) THEN 0
  ELSE IF At(t, i, w) THEN i ELSE Find(t, w, i + 1)

\* a character class is a set of characters, taken as [...] when inside
\* is TRUE and as [^...] when it is FALSE; \s is WhiteSpace inside, . is
\* LineTerminators not inside.
\* class*: the last position of the longest run of the class from i on,
\* i - 1 when the run is empty
RECURSIVE RunEnd(_, _, _, _)
RunEnd(t, i, chars, inside) ==
  IF i <= Len(t) /\ (t[i] \in chars) = inside
  THEN RunEnd(t, i + 1, chars, inside)
  ELSE i - 1

\* open class{least,}: the last position of the run, 0 for no match at i
RunAfter(t, i, open, chars, inside, least) ==
  IF ~At(t, i, open) THEN 0
  ELSE LET run == RunEnd(t, i + Len(open), chars, inside) IN
       IF run >= i + Len(open) + least - 1 THEN run ELSE 0

\* every character of t from position a to position b is in the class
AllIn(t, a, b, chars, inside) == \A k \in a..b : (t[k] \in chars) = inside

\* ^ with the m flag: position i starts a line
BeginLine(t, i) == i = 1 \/ t[i - 1] \in LineTerminators

\* $ with the m flag: a line ends after position j
EndLine(t, j) == j = Len(t) \/ t[j + 1] \in LineTerminators

\* text.replace(regexp with the g flag, ...): the text is scanned from the
\* left; ends[j] is the last position of the match that starts at j, 0
\* for no match at j. The text up to the next match is kept, the
\* replacement subst[j] is written for the match and the scan goes on
\* after it; no regexp of parseWikitext matches the empty text
RECURSIVE ReplaceFrom(_, _, _, _)
ReplaceFrom(t, i, ends, subst) ==
  LET starts == {j \in i..Len(t) : ends[j] >= j} IN
  IF starts = {} THEN SubSeq(t, i, Len(t))
  ELSE LET next == CHOOSE j \in starts : \A o \in starts : j <= o IN
       SubSeq(t, i, next - 1) \o subst[next] \o
       ReplaceFrom(t, ends[next] + 1, ends, subst)

\* End(t, j) is the last position of the match at j, 0 for none, and
\* With(t, j) is what is written for it
ReplaceAll(t, End(_, _), With(_, _)) ==
  ReplaceFrom(t, 1, [j \in DOMAIN t |-> End(t, j)],
              [j \in DOMAIN t |-> IF End(t, j) = 0 THEN <<>> ELSE With(t, j)])

\* String.prototype.trim
RECURSIVE TrimStart(_)
TrimStart(s) ==
  IF s # <<>> /\ Head(s) \in WhiteSpace THEN TrimStart(Tail(s)) ELSE s

RECURSIVE TrimEnd(_)
TrimEnd(s) ==
  IF s # <<>> /\ s[Len(s)] \in WhiteSpace
  THEN TrimEnd(SubSeq(s, 1, Len(s) - 1)) ELSE s

Trim(s) == TrimEnd(TrimStart(s))

\* String.prototype.split(separator) for a separator that is not empty
RECURSIVE SplitBy(_, _, _, _)
SplitBy(s, sep, i, from) ==
  IF i + Len(sep) - 1 > Len(s) THEN << SubSeq(s, from, Len(s)) >>
  ELSE IF At(s, i, sep)
       THEN << SubSeq(s, from, i - 1) >> \o
            SplitBy(s, sep, i + Len(sep), i + Len(sep))
  ELSE SplitBy(s, sep, i + 1, from)

Split(s, sep) == SplitBy(s, sep, 1, 1)

\* Array.prototype.join(separator)
RECURSIVE Join(_, _)
Join(list, sep) ==
  IF list = <<>> THEN <<>>
  ELSE IF Len(list) = 1 THEN list[1]
  ELSE Head(list) \o sep \o Join(Tail(list), sep)

\* ------------------------------------------------------------------------
\* parseWikitext: the removals before the templates
\* ------------------------------------------------------------------------

\* parseWikitext, the statements before processTemplates; each operator
\* of the LET gives the last position of the match of one regexp at i
BeforeTemplates(raw) ==
  LET Nothing(t, i) == <<>>
      \* /<noinclude[\s\S]*?<\/noinclude>/gi
      Noinclude(t, i) ==
        IF ~AtNoCase(t, i, <<"<", "n", "o", "i", "n", "c", "l", "u", "d", "e">>) THEN 0
        ELSE LET close == Find(NoCase(t), <<"<", "/", "n", "o", "i", "n", "c", "l", "u", "d", "e", ">">>, i + 10) IN
             IF close = 0 THEN 0 ELSE close + 11
      \* /<\/?includeonly>/gi
      Includeonly(t, i) ==
        IF AtNoCase(t, i, <<"<", "i", "n", "c", "l", "u", "d", "e", "o", "n", "l", "y", ">">>) THEN i + 12
        ELSE IF AtNoCase(t, i, <<"<", "/", "i", "n", "c", "l", "u", "d", "e", "o", "n", "l", "y", ">">>) THEN i + 13
        ELSE 0
      \* /<!--[\s\S]*?-->/g
      Comment(t, i) ==
        IF ~At(t, i, <<"<", "!", "-", "-">>) THEN 0
        ELSE LET close == Find(t, <<"-", "-", ">">>, i + 4) IN
             IF close = 0 THEN 0 ELSE close + 2
      \* /__(?:TOC|NOTOC|FORCETOC)__/g
      MagicWord(t, i) ==
        IF At(t, i, <<"_", "_", "T", "O", "C", "_", "_">>) THEN i + 6
        ELSE IF At(t, i, <<"_", "_", "N", "O", "T", "O", "C", "_", "_">>) THEN i + 8
        ELSE IF At(t, i, <<"_", "_", "F", "O", "R", "C", "E", "T", "O", "C", "_", "_">>) THEN i + 11
        ELSE 0
      \* open [^close]* close close, the opening whatever its case
      Bracketed(t, i, open, close) ==
        IF ~AtNoCase(t, i, open) THEN 0
        ELSE LET run == RunEnd(t, i + Len(open), {close}, FALSE) IN
             IF At(t, run + 1, <<close, close>>) THEN run + 2 ELSE 0
      \* /\{\{DISPLAYTITLE:[^}]*\}\}/gi
      DisplayTitle(t, i) == Bracketed(t, i, <<"{", "{", "d", "i", "s", "p", "l", "a", "y", "t", "i", "t", "l", "e", ":">>, "}")
      \* /\[\[(?:File|Image):[^\]]*\]\]/gi
      FileLink(t, i) ==
        IF AtNoCase(t, i, <<"[", "[", "f", "i", "l", "e", ":">>) THEN Bracketed(t, i, <<"[", "[", "f", "i", "l", "e", ":">>, "]")
        ELSE Bracketed(t, i, <<"[", "[", "i", "m", "a", "g", "e", ":">>, "]")
      \* /\[\[Category:[^\]]*\]\]/gi
      CategoryLink(t, i) == Bracketed(t, i, <<"[", "[", "c", "a", "t", "e", "g", "o", "r", "y", ":">>, "]")
      Remove(t, End(_, _)) == ReplaceAll(t, End, Nothing)
  IN Remove(Remove(Remove(Remove(Remove(Remove(Remove(raw,
       Noinclude), Includeonly), Comment), MagicWord), DisplayTitle),
       FileLink), CategoryLink)

\* ------------------------------------------------------------------------
\* parseWikitext: the templates
\* ------------------------------------------------------------------------

\* the lines of a parameter when no key is skipped
InfoboxLinesOfEveryKey(param) ==
  LET eq == Find(param, <<"=">>, 1)
      key == Trim(SubSeq(param, 1, eq - 1))
      value == Trim(SubSeq(param, eq + 1, Len(param)))
  IN IF eq = 0 \/ key = <<>> \/ value = <<>> THEN <<>>
     ELSE << key \o <<":", " ">> \o value >>

\* the lines one parameter of an infobox gives, none or one.
\* param.match(/^\s*(\w[\w\s]*?)\s*=\s*(.+?)\s*$/s): the key group holds no
\* "=", so the "=" of the match is the first of the parameter; before it
\* stand only word characters and white space, a word character among
\* them; after it stands at least one character. The groups trimmed are
\* the texts before and after the "=" trimmed. The keys of the regexp of
\* lines 152-153 are skipped, whatever their case.
InfoboxLines(param) ==
  LET eq == Find(param, <<"=">>, 1)
      before == SubSeq(param, 1, eq - 1)
      after == SubSeq(param, eq + 1, Len(param))
      key == Trim(before)
      value == Trim(after)
      skipped ==
        {<<"i", "m", "a", "g", "e">>, <<"i", "c", "o", "n">>, <<"c", "a", "p", "t", "i", "o", "n">>,
         <<"i", "m", "a", "g", "e", "w", "i", "d", "t", "h">>,
         <<"i", "m", "a", "g", "e", "h", "e", "i", "g", "h", "t">>, <<"s", "t", "y", "l", "e">>,
         <<"c", "l", "a", "s", "s">>, <<"c", "o", "l", "s", "p", "a", "n">>,
         <<"r", "o", "w", "s", "p", "a", "n">>}
  IN IF \/ eq = 0
        \/ key = <<>>
        \/ \E k \in DOMAIN before :
             ~IsWordChar(before[k]) /\ before[k] \notin WhiteSpace
        \/ after = <<>>
     THEN <<>>
     ELSE IF NoCase(key) \in skipped THEN <<>>
     ELSE IF value = <<>> THEN <<>>
     ELSE << key \o <<":", " ">> \o value >>

\* extractInfoboxText(params)
extractInfoboxText(params) ==
  LET lines == Concat([k \in DOMAIN params |-> InfoboxLines(params[k])]) IN
  IF Len(lines) > 0 THEN Join(lines, <<"\n">>) \o <<"\n">> ELSE <<>>

\* the template is resolved by the name in its second part, not its first
extractTemplateTextByNextPart(content) ==
  LET parts == Split(content, <<"|">>)
      templateName == IF Len(parts) >= 2 THEN NoCase(Trim(parts[2])) ELSE <<>>
  IN IF templateName \in {<<"q", "u", "o", "t", "e">>, <<"m", "a", "i", "n">>, <<"n", "i", "h", "o", "n", "g", "o">>}
     THEN Trim(parts[1]) ELSE <<>>

\* extractTemplateText(content): the text a template gives by its name
extractTemplateText(content) ==
  LET parts == Split(content, <<"|">>)
      templateName == NoCase(Trim(parts[1]))
      second == Len(parts) >= 2 /\ parts[2] # <<>>
  IN IF At(templateName, 1, <<"i", "n", "f", "o", "b", "o", "x">>)
     THEN extractInfoboxText(Tail(parts))
     ELSE IF templateName \in {<<"q", "u", "o", "t", "e">>, <<"c", "q", "u", "o", "t", "e">>}
     THEN (IF second THEN <<"\"">> \o Trim(parts[2]) \o <<"\"">> ELSE <<>>)
     ELSE IF templateName = <<"c", "o", "l", "o", "r">> /\ Len(parts) >= 3
     THEN Trim(parts[3])
     ELSE IF templateName \in {<<"m", "a", "i", "n">>, <<"s", "e", "e", " ", "a", "l", "s", "o">>}
     THEN (IF second THEN <<"(", "S", "e", "e", ":", " ">> \o Trim(parts[2]) \o <<")">> ELSE <<>>)
     ELSE IF templateName = <<"n", "i", "h", "o", "n", "g", "o">>
     THEN (IF second THEN Trim(parts[2]) ELSE <<>>)
     ELSE <<>>

\* /\{\{([^{}]*)\}\}/g: the last position of the template that starts at
\* i, no brace between its markers; 0 for no template at i
TemplateEnd(t, i) ==
  LET run == RunAfter(t, i, <<"{", "{">>, {"{", "}"}, FALSE, 0) IN
  IF run # 0 /\ At(t, run + 1, <<"}", "}">>) THEN run + 2 ELSE 0

\* the text between the markers of the template that starts at i
TemplateContent(t, i) == SubSeq(t, i + 2, TemplateEnd(t, i) - 2)

\* one pass of the loop: every such template is replaced by its text
TemplatePass(t) ==
  LET Text(s, i) == extractTemplateText(TemplateContent(s, i)) IN
  ReplaceAll(t, TemplateEnd, Text)

\* the safety limit of processTemplates
maxIterations == 50

\* the condition of the while loop
TemplateLoopGoesOn(text, previous, iterations) ==
  text # previous /\ iterations < maxIterations

\* the texts between the markers of the templates one pass replaces (two
\* matches cannot overlap: no brace stands between the markers)
MatchedTemplates(t) ==
  {TemplateContent(t, i) : i \in {j \in DOMAIN t : TemplateEnd(t, j) # 0}}

\* ------------------------------------------------------------------------
\* parseWikitext: the tables and the links
\* ------------------------------------------------------------------------

\* processTables(text)
processTables(text) ==
  LET Nothing(t, i) == <<>>
      \* /^mark\s*(.*)/gm: the first position of the group, the last
      \* position of the match (0 for no match at i) and the group
      RestOfLineFrom(t, i, mark) ==
        RunEnd(t, i + Len(mark), WhiteSpace, TRUE) + 1
      RestOfLineEnd(t, i, mark) ==
        IF BeginLine(t, i) /\ At(t, i, mark)
        THEN RunEnd(t, RestOfLineFrom(t, i, mark), LineTerminators, FALSE)
        ELSE 0
      RestOfLine(t, i, mark) ==
        SubSeq(t, RestOfLineFrom(t, i, mark), RestOfLineEnd(t, i, mark))
      \* /^\{\|[^\n]*$/gm
      TableStart(t, i) ==
        IF BeginLine(t, i) /\ At(t, i, <<"{", "|">>)
        THEN RunEnd(t, i + 2, {"\n"}, FALSE) ELSE 0
      \* /^\|\}$/gm
      TableEnd(t, i) ==
        IF BeginLine(t, i) /\ At(t, i, <<"|", "}">>) /\ EndLine(t, i + 1)
        THEN i + 1 ELSE 0
      \* /^\|\+\s*(.*)/gm, "$1"
      CaptionEnd(t, i) == RestOfLineEnd(t, i, <<"|", "+">>)
      Caption(t, i) == RestOfLine(t, i, <<"|", "+">>)
      \* /^\|-[^\n]*/gm
      RowSeparator(t, i) ==
        IF BeginLine(t, i) /\ At(t, i, <<"|", "-">>)
        THEN RunEnd(t, i + 2, {"\n"}, FALSE) ELSE 0
      \* /^!\s*(.*)/gm, "$1"
      HeaderCellEnd(t, i) == RestOfLineEnd(t, i, <<"!">>)
      HeaderCell(t, i) == RestOfLine(t, i, <<"!">>)
      \* /^\|\s*(.*)/gm
      CellsEnd(t, i) == RestOfLineEnd(t, i, <<"|">>)
      \* content.split("||").map(trim).filter(Boolean).join(" | ")
      Cells(t, i) ==
        LET cells == Split(RestOfLine(t, i, <<"|">>), <<"|", "|">>)
            trimmed == [k \in DOMAIN cells |-> Trim(cells[k])]
        IN Join(SelectSeq(trimmed, LAMBDA cell : cell # <<>>),
                <<" ", "|", " ">>)
  IN ReplaceAll(ReplaceAll(ReplaceAll(ReplaceAll(ReplaceAll(ReplaceAll(text,
       TableStart, Nothing), TableEnd, Nothing), CaptionEnd, Caption),
       RowSeparator, Nothing), HeaderCellEnd, HeaderCell), CellsEnd, Cells)

\* the four statements that convert links
ConvertLinks(text) ==
  LET \* /\[\[([^\]|]+)\|([^\]]+)\]\]/g, "$2": the ends of the two groups
      PipedTarget(t, i) == RunAfter(t, i, <<"[", "[">>, {"]", "|"}, FALSE, 1)
      PipedDisplay(t, i) ==
        IF PipedTarget(t, i) = 0 THEN 0
        ELSE RunAfter(t, PipedTarget(t, i) + 1, <<"|">>, {"]"}, FALSE, 1)
      PipedEnd(t, i) ==
        IF PipedDisplay(t, i) # 0 /\
           At(t, PipedDisplay(t, i) + 1, <<"]", "]">>)
        THEN PipedDisplay(t, i) + 2 ELSE 0
      Display(t, i) == SubSeq(t, PipedTarget(t, i) + 2, PipedDisplay(t, i))
      \* /\[\[([^\]]+)\]\]/g, "$1"
      PlainTarget(t, i) == RunAfter(t, i, <<"[", "[">>, {"]"}, FALSE, 1)
      PlainEnd(t, i) ==
        IF PlainTarget(t, i) # 0 /\ At(t, PlainTarget(t, i) + 1, <<"]", "]">>)
        THEN PlainTarget(t, i) + 2 ELSE 0
      Target(t, i) == SubSeq(t, i + 2, PlainTarget(t, i))
      \* \[https?:\/\/ : the word that opens an external link at i
      Opening(t, i) ==
        IF At(t, i, <<"[", "h", "t", "t", "p", "s", ":", "/", "/">>)
        THEN <<"[", "h", "t", "t", "p", "s", ":", "/", "/">>
        ELSE <<"[", "h", "t", "t", "p", ":", "/", "/">>
      \* /\[https?:\/\/[^\s\]]+ ([^\]]+)\]/g, "$1": the ends of the address
      \* and of the label
      Address(t, i) ==
        RunAfter(t, i, Opening(t, i), WhiteSpace \cup {"]"}, FALSE, 1)
      LabelEnd(t, i) ==
        IF Address(t, i) = 0 THEN 0
        ELSE RunAfter(t, Address(t, i) + 1, <<" ">>, {"]"}, FALSE, 1)
      LabelledEnd(t, i) ==
        IF LabelEnd(t, i) # 0 /\ At(t, LabelEnd(t, i) + 1, <<"]">>)
        THEN LabelEnd(t, i) + 1 ELSE 0
      Label(t, i) == SubSeq(t, Address(t, i) + 2, LabelEnd(t, i))
      \* /\[https?:\/\/([^\]]+)\]/g, "$1"
      BareAddress(t, i) == RunAfter(t, i, Opening(t, i), {"]"}, FALSE, 1)
      BareEnd(t, i) ==
        IF BareAddress(t, i) # 0 /\ At(t, BareAddress(t, i) + 1, <<"]">>)
        THEN BareAddress(t, i) + 1 ELSE 0
      Bare(t, i) == SubSeq(t, i + Len(Opening(t, i)), BareAddress(t, i))
  IN ReplaceAll(ReplaceAll(ReplaceAll(ReplaceAll(text,
       PipedEnd, Display), PlainEnd, Target), LabelledEnd, Label),
       BareEnd, Bare)

\* ------------------------------------------------------------------------
\* parseWikitext: headers, emphasis, tags, lists and rules
\* ------------------------------------------------------------------------

\* the order in which the matcher tries its choices: the first differing
\* component decides, the larger first
RECURSIVE TriedBefore(_, _)
TriedBefore(x, y) ==
  IF x = <<>> THEN TRUE
  ELSE IF Head(x) # Head(y) THEN Head(x) > Head(y)
  ELSE TriedBefore(Tail(x), Tail(y))

FirstTried(choices) ==
  CHOOSE x \in choices : \A y \in choices : TriedBefore(x, y)

\* /^={1,6}\s*(.+?)\s*={1,6}\s*$/gm, after the group has ended at g: the
\* white space ends at h, e signs follow, white space up to f, where a
\* line ends; the triples <<h, e, f>>
HeaderTails(t, g) ==
  {tail \in (g..Len(t)) \X (1..6) \X (g..Len(t)) :
     /\ AllIn(t, g + 1, tail[1], WhiteSpace, TRUE)
     /\ tail[1] + tail[2] <= tail[3]
     /\ AllIn(t, tail[1] + 1, tail[1] + tail[2], {"="}, TRUE)
     /\ AllIn(t, tail[1] + tail[2] + 1, tail[3], WhiteSpace, TRUE)
     /\ EndLine(t, tail[3])}

\* the ends g of the group (.+?) that starts after position b, the shortest
\* is tried first
HeaderGroups(t, b) ==
  {g \in (b + 1)..Len(t) :
     AllIn(t, b + 1, g, LineTerminators, FALSE) /\ HeaderTails(t, g) # {}}

\* the openings at i: a signs, then white space up to position b; the
\* pairs <<a, b>>
HeaderHeads(t, i) ==
  {head \in (1..6) \X (i..Len(t)) :
     /\ i + head[1] - 1 <= head[2]
     /\ AllIn(t, i, i + head[1] - 1, {"="}, TRUE)
     /\ AllIn(t, i + head[1], head[2], WhiteSpace, TRUE)
     /\ HeaderGroups(t, head[2]) # {}}

\* the match of a header at i: the group and the last position, 0 for none
HeaderMatch(t, i) ==
  IF ~(BeginLine(t, i) /\ At(t, i, <<"=">>)) \/ HeaderHeads(t, i) = {}
  THEN [from |-> 0, to |-> 0, end |-> 0]
  ELSE LET head == FirstTried(HeaderHeads(t, i))
           g == CHOOSE x \in HeaderGroups(t, head[2]) :
                  \A y \in HeaderGroups(t, head[2]) : x <= y
           tail == FirstTried(HeaderTails(t, g))
       IN [from |-> head[2] + 1, to |-> g, end |-> tail[3]]

\* text.replace(/^={1,6}\s*(.+?)\s*={1,6}\s*$/gm, "\n$1\n")
ConvertHeaders(text) ==
  LET match == [i \in DOMAIN text |-> HeaderMatch(text, i)]
      End(t, i) == match[i].end
      Title(t, i) ==
        <<"\n">> \o SubSeq(t, match[i].from, match[i].to) \o <<"\n">>
  IN ReplaceAll(text, End, Title)

\* /'{n}(.+?)'{n}/: the first position from k on where n apostrophes
\* close the group, no line ending before it; 0 for none
RECURSIVE EmphasisClose(_, _, _)
EmphasisClose(t, k, n) ==
  IF k + n - 1 > Len(t) THEN 0
  ELSE IF t[k - 1] \in LineTerminators THEN 0
  ELSE IF At(t, k, [q \in 1..n |-> "'"]) THEN k
  ELSE EmphasisClose(t, k + 1, n)

\* text.replace(/'{n}(.+?)'{n}/g, "$1")
ConvertEmphasis(text, n) ==
  LET End(t, i) ==
        IF At(t, i, [q \in 1..n |-> "'"]) /\ EmphasisClose(t, i + n + 1, n) # 0
        THEN EmphasisClose(t, i + n + 1, n) + n - 1 ELSE 0
      Group(t, i) == SubSeq(t, i + n, End(t, i) - n)
  IN ReplaceAll(text, End, Group)

\* the statements for headers, bold and italic, and the HTML tags
ConvertInline(text) ==
  LET Nothing(t, i) == <<>>
      Newline(t, i) == <<"\n">>
      \* /<br\s*\/?>/gi
      Break(t, i) ==
        IF ~AtNoCase(t, i, <<"<", "b", "r">>) THEN 0
        ELSE LET s == RunEnd(t, i + 3, WhiteSpace, TRUE) IN
             IF At(t, s + 1, <<"/", ">">>) THEN s + 2
             ELSE IF At(t, s + 1, <<">">>) THEN s + 1
             ELSE 0
      \* /<\/?[^>]+>/g: the "/" is in the class too, so the match is "<",
      \* one character or more that are not ">", and ">"
      Tag(t, i) ==
        LET run == RunAfter(t, i, <<"<">>, {">"}, FALSE, 1) IN
        IF run # 0 /\ At(t, run + 1, <<">">>) THEN run + 1 ELSE 0
  IN ReplaceAll(ReplaceAll(ConvertEmphasis(ConvertEmphasis(ConvertEmphasis(
       ConvertHeaders(text), 5), 3), 2), Break, Newline), Tag, Nothing)

\* the statements for lists and horizontal rules
ConvertLines(text) ==
  LET \* /^mark+\s*/gm
      Marks(t, i, mark) ==
        IF BeginLine(t, i) /\ At(t, i, <<mark>>)
        THEN RunEnd(t, RunEnd(t, i, {mark}, TRUE) + 1, WhiteSpace, TRUE)
        ELSE 0
      Stars(t, i) == Marks(t, i, "*")
      Hashes(t, i) == Marks(t, i, "#")
      Semicolons(t, i) == Marks(t, i, ";")
      Colons(t, i) == Marks(t, i, ":")
      Dash(t, i) == <<"-", " ">>
      Nothing(t, i) == <<>>
      Indent(t, i) == <<" ", " ">>
      \* /^-{4,}\s*$/gm: the white space is given back until a line ends
      Rule(t, i) ==
        IF ~(BeginLine(t, i) /\ At(t, i, <<"-", "-", "-", "-">>)) THEN 0
        ELSE LET dashes == RunEnd(t, i, {"-"}, TRUE)
                 blanks == RunEnd(t, dashes + 1, WhiteSpace, TRUE)
                 ends == {f \in dashes..blanks : EndLine(t, f)}
             IN IF ends = {} THEN 0
                ELSE CHOOSE f \in ends : \A o \in ends : f >= o
  IN ReplaceAll(ReplaceAll(ReplaceAll(ReplaceAll(ReplaceAll(text,
       Stars, Dash), Hashes, Dash), Semicolons, Nothing), Colons, Indent),
       Rule, Nothing)

\* ------------------------------------------------------------------------
\* parseWikitext: the entities and the white space
\* ------------------------------------------------------------------------

\* the entities record, in the order of its keys
entities ==
  << <<<<"&", "a", "m", "p", ";">>, <<"&">>>>,
     <<<<"&", "l", "t", ";">>, <<"<">>>>,
     <<<<"&", "g", "t", ";">>, <<">">>>>,
     <<<<"&", "q", "u", "o", "t", ";">>, <<"\"">>>>,
     <<<<"&", "a", "p", "o", "s", ";">>, <<"'">>>>,
     <<<<"&", "#", "3", "9", ";">>, <<"'">>>>,
     <<<<"&", "n", "b", "s", "p", ";">>, <<" ">>>>,
     <<<<"&", "n", "d", "a", "s", "h", ";">>, <<OtherChar(8211)>>>>,
     <<<<"&", "m", "d", "a", "s", "h", ";">>, <<OtherChar(8212)>>>>,
     <<<<"&", "h", "e", "l", "l", "i", "p", ";">>, <<".", ".", ".">>>>,
     <<<<"&", "b", "u", "l", "l", ";">>, <<OtherChar(8226)>>>>,
     <<<<"&", "t", "r", "a", "d", "e", ";">>, <<OtherChar(8482)>>>>,
     <<<<"&", "c", "o", "p", "y", ";">>, <<OtherChar(169)>>>>,
     <<<<"&", "r", "e", "g", ";">>, <<OtherChar(174)>>>> >>

\* the for loop over the entities, from the k-th on:
\* text.replace(new RegExp(entity, "gi"), replacement)
RECURSIVE ReplaceEntities(_, _)
ReplaceEntities(text, k) ==
  IF k > Len(entities) THEN text
  ELSE LET End(t, i) ==
             IF AtNoCase(t, i, entities[k][1])
             THEN i + Len(entities[k][1]) - 1 ELSE 0
           Replacement(t, i) == entities[k][2]
       IN ReplaceEntities(ReplaceAll(text, End, Replacement), k + 1)

\* the unsigned 16-bit value String.fromCharCode takes of parseInt(code,
\* base); it is the number modulo 2^16 for the numbers a double holds
\* exactly
RECURSIVE CharCodeOf(_, _, _)
CharCodeOf(code, base, acc) ==
  IF code = <<>> THEN acc
  ELSE LET digit == IF Head(code) \in Digits THEN CodePoint(Head(code)) - 48
                    ELSE CodePoint(ToLower(Head(code))) - 87
       IN CharCodeOf(Tail(code), base, (acc * base + digit) % 65536)

\* decodeHtmlEntities(text)
decodeHtmlEntities(text) ==
  LET hex == Digits \cup {"a", "b", "c", "d", "e", "f"}
                    \cup {"A", "B", "C", "D", "E", "F"}
      \* /&#(\d+);/g
      DecimalDigits(t, i) == RunAfter(t, i, <<"&", "#">>, Digits, TRUE, 1)
      DecimalEnd(t, i) ==
        IF DecimalDigits(t, i) # 0 /\ At(t, DecimalDigits(t, i) + 1, <<";">>)
        THEN DecimalDigits(t, i) + 1 ELSE 0
      Decimal(t, i) ==
        << FromCharCode(CharCodeOf(SubSeq(t, i + 2, DecimalDigits(t, i)),
                                   10, 0)) >>
      \* /&#x([0-9a-f]+);/gi
      HexOpening(t, i) ==
        IF At(t, i, <<"&", "#", "X">>) THEN <<"&", "#", "X">>
        ELSE <<"&", "#", "x">>
      HexDigits(t, i) == RunAfter(t, i, HexOpening(t, i), hex, TRUE, 1)
      HexEnd(t, i) ==
        IF HexDigits(t, i) # 0 /\ At(t, HexDigits(t, i) + 1, <<";">>)
        THEN HexDigits(t, i) + 1 ELSE 0
      Hex(t, i) ==
        << FromCharCode(CharCodeOf(SubSeq(t, i + 3, HexDigits(t, i)),
                                   16, 0)) >>
  IN ReplaceAll(ReplaceAll(ReplaceEntities(text, 1), DecimalEnd, Decimal),
                HexEnd, Hex)

\* the statements that collapse white space, and the trim
CollapseWhitespace(text) ==
  LET \* /[ \t]+/g, " "
      Blanks(t, i) ==
        IF RunEnd(t, i, {" ", "\t"}, TRUE) >= i
        THEN RunEnd(t, i, {" ", "\t"}, TRUE) ELSE 0
      Space(t, i) == <<" ">>
      \* /\n{3,}/g, "\n\n"
      Newlines(t, i) ==
        IF RunEnd(t, i, {"\n"}, TRUE) >= i + 2
        THEN RunEnd(t, i, {"\n"}, TRUE) ELSE 0
      TwoNewlines(t, i) == <<"\n", "\n">>
  IN Trim(ReplaceAll(ReplaceAll(text, Blanks, Space),
                     Newlines, TwoNewlines))

\* ------------------------------------------------------------------------
\* The inputs the operations are called with
\* ------------------------------------------------------------------------

\* a PageData value (src/src/types.ts)
PageData(title, content, url, list, last_modified) ==
  [title |-> title, content |-> content, url |-> url,
   categories |-> list, last_modified |-> last_modified]

\* the pages that are written: two versions of the title "A", the title "a"
\* that differs from it in case only, the titles "b" and "a b"
ValidPages ==
  { PageData(<<"A">>, <<"a", " ", "b">>, <<"u">>, << <<"T">> >>, Null),
    PageData(<<"A">>, <<"c">>, <<"v">>, << <<"T", "s">> >>, <<"m">>),
    PageData(<<"a">>, <<"b">>, <<"u">>, << <<"t", "\"">> >>, <<"m">>),
    PageData(<<"b">>, <<"a">>, <<"u">>, << <<"T">>, <<"T", "s">> >>, Null),
    PageData(<<"a", " ", "b">>, <<"b", " ", "a">>, <<"v">>, <<>>, <<"m">>) }

\* a page the pages table rejects: content is NOT NULL
InvalidPages == { PageData(<<"c">>, Null, <<"u">>, <<>>, Null) }

PageInputs == ValidPages \cup InvalidPages

\* longest batch given to upsertPages
MaxBatch == 2

\* the sequences over a set of length at most n
RECURSIVE SeqsUpTo(_, _)
SeqsUpTo(set, n) ==
  IF n = 0 THEN {<<>>}
  ELSE LET shorter == SeqsUpTo(set, n - 1) IN
       shorter \cup {Append(q, x) : q \in shorter, x \in set}

Batches == SeqsUpTo(PageInputs, MaxBatch)

\* the titles looked up: every title written, in several casings, and one
\* that is never written
LookupTitles ==
  {<<"A">>, <<"a">>, <<"b">>, <<"B">>, <<"a", " ", "b">>,
   <<"A", " ", "B">>, <<"s">>}

\* the queries searched: empty, punctuation only, one token in either case,
\* two tokens, a hyphenated token, a token without a letter beside a word,
\* a disallowed character between letters, a word no page holds
Queries ==
  {<<>>, <<"!">>, <<"-">>, <<"_">>, <<"!", " ", "!">>, <<"-", " ", "_">>,
   <<"a">>, <<"A">>, <<"b">>, <<"c">>, <<"s">>,
   <<"a", " ", "b">>, <<"a", "-", "b">>, <<"a", " ", "-">>, <<"a", "!", "c">>}

\* the limit of searchPages when the caller gives none
DefaultLimit == 5

\* the limits searchPages is called with
Limits == ((-1)..MaxLimit) \cup {DefaultLimit}

\* ------------------------------------------------------------------------
\* State
\* ------------------------------------------------------------------------

\* no write call has returned yet / no read has been made yet
NoCall == [op |-> "none"]

\* no call of parseWikitext is in progress
NoParse == [pc |-> "idle"]

\* no run of scrapeWiki was started yet
NoScrape == [pc |-> "idle"]

\* no transaction is open on the writing connection
NoTx == [active |-> FALSE]

\* the committed database
Committed == Db(pages, fts, seq)

\* the record of the pages last written under each title, by successful
\* calls only: what the callers supplied
Supply(sup, batch) ==
  LET titles == {batch[i].title : i \in DOMAIN batch}
      lastOf(t) == CHOOSE i \in DOMAIN batch :
                     /\ batch[i].title = t
                     /\ \A j \in DOMAIN batch : batch[j].title = t => j <= i
  IN {q \in sup : q.title \notin titles} \cup {batch[lastOf(t)] : t \in titles}

\* no call is in progress and the result of the last one was taken
Idle == last = NoCall /\ obs = NoCall

Init ==
  /\ pages = {}
  /\ fts = EmptyBag
  /\ seq = 0
  /\ clock = 0
  /\ tx = NoTx
  /\ last = NoCall
  /\ obs = NoCall
  /\ supplied = {}
  /\ categories = {}
  /\ parse = NoParse
  /\ scrape = NoScrape

\* the caller takes the result of the call it made; the next call starts
\* from there
Return ==
  /\ ~Idle
  /\ last' = NoCall
  /\ obs' = NoCall
  /\ UNCHANGED <<scrape, parse, categories, pages, fts, seq, clock, tx, supplied>>

\* a second passes
Tick ==
  /\ Idle
  /\ clock < MaxClock
  /\ clock' = clock + 1
  /\ UNCHANGED <<scrape, parse, categories, pages, fts, seq, tx, last, obs, supplied>>

\* upsertPage(page): one statement in autocommit mode
UpsertPage(page) ==
  /\ Idle
  /\ ~tx.active
  /\ seq < MaxWrites
  /\ LET r == UpsertStmt(Committed, page, clock) IN
       /\ pages' = r.db.pages
       /\ fts' = r.db.fts
       /\ seq' = r.db.seq
       /\ last' = [op |-> "upsertPage", batch |-> <<page>>,
                   threw |-> r.threw, pre |-> Committed]
       /\ supplied' = IF r.threw THEN supplied ELSE Supply(supplied, <<page>>)
  /\ obs' = NoCall
  /\ UNCHANGED <<scrape, parse, categories, clock, tx>>

\* upsertPages(batch): the whole call, one transaction, run within the
\* second the clock shows (SpecTxn lets seconds pass between statements)
UpsertPages(batch) ==
  /\ Idle
  /\ ~tx.active
  /\ seq + Len(batch) <= MaxWrites
  /\ LET r == TransactionRun(Committed, batch, [i \in DOMAIN batch |-> clock]) IN
       /\ pages' = r.db.pages
       /\ fts' = r.db.fts
       /\ seq' = r.db.seq
       /\ last' = [op |-> "upsertPages", batch |-> batch,
                   threw |-> r.threw, pre |-> Committed]
       /\ supplied' = IF r.threw THEN supplied ELSE Supply(supplied, batch)
  /\ obs' = NoCall
  /\ UNCHANGED <<scrape, parse, categories, clock, tx>>

\* getPage(title), the answer is observed
GetPage(title) ==
  /\ Idle
  /\ obs' = [op |-> "getPage", title |-> title, page |-> getPage(pages, title),
             scrapedAt |-> getPageScrapedAt(pages, title)]
  /\ UNCHANGED <<scrape, parse, categories, pages, fts, seq, clock, tx, last, supplied>>

\* searchPages(query, limit), the answer is observed
SearchPages(query, limit) ==
  /\ Idle
  /\ obs' = [op |-> "searchPages", query |-> query, limit |-> limit,
             result |-> searchPages(Committed, query, limit)]
  /\ UNCHANGED <<scrape, parse, categories, pages, fts, seq, clock, tx, last, supplied>>

Write ==
  \/ \E page \in PageInputs : UpsertPage(page)
  \/ \E batch \in Batches : UpsertPages(batch)

Next ==
  \/ Tick
  \/ Write
  \/ \E title \in LookupTitles : GetPage(title)
  \/ Return

Spec == Init /\ [][Next]_vars

\* single writes and searches
NextSearch ==
  \/ \E page \in PageInputs : UpsertPage(page)
  \/ \E query \in Queries : \E limit \in Limits : SearchPages(query, limit)
  \/ Return

SpecSearch == Init /\ [][NextSearch]_vars

\* ------------------------------------------------------------------------
\* The categories: writes, refreshCategories and the category reads
\* ------------------------------------------------------------------------

\* a page whose list names a category twice
RepeatedCategoryPage ==
  PageData(<<"c">>, <<"c">>, <<"u">>, << <<"T">>, <<"T">> >>, Null)

\* the pages written where categories are read
CategoryPageInputs == PageInputs \cup {RepeatedCategoryPage}

\* the names getPagesByCategory is asked for: names pages carry, a name in
\* another case, a name with a quotation mark, names with an underscore,
\* a name no page carries
LookupCategories ==
  {<<"T">>, <<"T", "s">>, <<"t">>, <<"t", "\"">>, <<"T", "_">>, <<"s">>}

\* refreshCategories(); it may follow a refreshCategories directly, which
\* the record of the call tells
RefreshCategories ==
  /\ obs = NoCall
  /\ last.op \in {"none", "refreshCategories"}
  /\ ~tx.active
  /\ categories' = refreshCategories(categories, pages)
  /\ last' = [op |-> "refreshCategories", again |-> last.op = "refreshCategories",
              before |-> getCategories(categories)]
  /\ UNCHANGED <<scrape, parse, pages, fts, seq, clock, tx, obs, supplied>>

\* getCategories(), the answer is observed
GetCategories ==
  /\ Idle
  /\ obs' = [op |-> "getCategories", rows |-> getCategories(categories),
             pre |-> <<pages, fts, categories>>]
  /\ UNCHANGED <<scrape, parse, categories, pages, fts, seq, clock, tx, last, supplied>>

\* getPagesByCategory(category), the answer is observed
GetPagesByCategory(category) ==
  /\ Idle
  /\ obs' = [op |-> "getPagesByCategory", category |-> category,
             titles |-> getPagesByCategory(pages, category),
             pre |-> <<pages, fts, categories>>]
  /\ UNCHANGED <<scrape, parse, categories, pages, fts, seq, clock, tx, last, supplied>>

NextCategories ==
  \/ \E page \in CategoryPageInputs : UpsertPage(page)
  \/ \E batch \in Batches : UpsertPages(batch)
  \/ RefreshCategories
  \/ GetCategories
  \/ \E category \in LookupCategories : GetPagesByCategory(category)
  \/ \E title \in LookupTitles : GetPage(title)
  \/ Return

SpecCategories == Init /\ [][NextCategories]_vars

\* ------------------------------------------------------------------------
\* parseWikitext: the calls, statement by statement
\* ------------------------------------------------------------------------

\* the length of the raw texts that are tried character by character
MaxRawLen == 3

\* the raw texts parseWikitext is called with: every text of a few
\* characters of markup; one template of every known name and of an
\* unknown one, with no segment, empty ones, blank ones and full ones;
\* markers without their pair, a brace inside a template, entities that
\* decode to markup or to entities, nested links and templates, templates
\* nested as deep as the safety limit and deeper; a page with markup of
\* every kind
RawInputs ==
  LET \* templates nested to a depth: "{{{{ ... }}}}"
      Nested(depth) ==
        [k \in 1..(2 * depth) |-> "{"] \o [k \in 1..(2 * depth) |-> "}"]
      names ==
        {<<"q", "u", "o", "t", "e">>, <<" ", "Q", "u", "o", "t", "e", " ">>,
         <<"c", "q", "u", "o", "t", "e">>, <<"c", "o", "l", "o", "r">>,
         <<"m", "a", "i", "n">>, <<"S", "e", "e", " ", "a", "l", "s", "o">>,
         <<"n", "i", "h", "o", "n", "g", "o">>, <<"s", "t", "u", "b">>,
         <<"I", "n", "f", "o", "b", "o", "x", " ", "i", "t", "e", "m">>}
      segments ==
        {<<>>, <<"|">>, <<"|", " ">>, <<"|", "x">>, <<"|", " ", "x", " ", "|", "y", " ">>, <<"|", "|", "y">>,
         <<"|", "k", " ", "=", " ", "v", "|", "i", "m", "a", "g", "e", " ", "=", " ", "i">>}
      page ==
        <<"<", "!", "-", "-", "c", "-", "-", ">", "_", "_", "T", "O">>
        \o <<"C", "_", "_", "{", "|", "\n", "|", "+", " ", "c", "a", "p">>
        \o <<"\n", "|", "-", "\n", "!", " ", "h", "\n", "|", " ", "a", " ">>
        \o <<"|", "|", " ", "b", "\n", "|", "}", "\n", "=", "=", " ", "H">>
        \o <<" ", "=", "=", "\n", "'", "'", "'", "b", "'", "'", "'", " ">>
        \o <<"'", "'", "i", "'", "'", "<", "b", "r", ">", "[", "[", "L">>
        \o <<"|", "d", "]", "]", " ", "[", "[", "p", "]", "]", " ", "[">>
        \o <<"h", "t", "t", "p", "s", ":", "/", "/", "e", ".", "x", " ">>
        \o <<"t", "]", " ", "[", "h", "t", "t", "p", ":", "/", "/", "u">>
        \o <<"]", "\n", "*", " ", "x", "\n", "#", " ", "y", "\n", ";", " ">>
        \o <<"z", "\n", ":", " ", "w", "\n", "-", "-", "-", "-", "\n", "&">>
        \o <<"l", "t", ";", "&", "#", "6", "5", ";", "&", "#", "x", "4">>
        \o <<"1", ";", " ", " ", "z", "\n", "\n", "\n", "\n", "[", "[", "F">>
        \o <<"i", "l", "e", ":", "f", ".", "p", "n", "g", "]", "]", "[">>
        \o <<"[", "C", "a", "t", "e", "g", "o", "r", "y", ":", "C", "]">>
        \o <<"]", "{", "{", "D", "I", "S", "P", "L", "A", "Y", "T", "I">>
        \o <<"T", "L", "E", ":", "t", "}", "}", "<", "n", "o", "i", "n">>
        \o <<"c", "l", "u", "d", "e", ">", "n", "<", "/", "n", "o", "i">>
        \o <<"n", "c", "l", "u", "d", "e", ">", "<", "i", "n", "c", "l">>
        \o <<"u", "d", "e", "o", "n", "l", "y", ">", "k", "<", "/", "i">>
        \o <<"n", "c", "l", "u", "d", "e", "o", "n", "l", "y", ">", "<">>
        \o <<"b", ">", "g", "<", "/", "b", ">">>
  IN SeqsUpTo({"{", "}", "[", "]", "|", "a"}, MaxRawLen)
       \cup {<<"{", "{">> \o name \o rest \o <<"}", "}">> :
               name \in names, rest \in segments}
       \cup {<<"{", "{", "a">>, <<"[", "[", "a", "]", "b", "]", "]">>,
             <<"{", "{", "a", "{", "b", "}", "}">>,
             <<"{", "{", "a", "}", "b", "}", "}">>,
             <<"&", "a", "m", "p", ";", "a", "m", "p", ";">>,
             <<"&", "a", "m", "p", ";", "l", "t", ";">>,
             <<"&", "#", "1", "2", "3", ";", "&", "#", "1", "2", "3", ";", "a">>,
             <<"[", "[", "[", "[", "a", "]", "]", "]", "]">>,
             <<"{", "{", "o", "u", "t", "e", "r", "|", "{", "{", "i", "n", "n", "e", "r", "}", "}", "}", "}">>,
             <<"{", "{", "m", "a", "i", "n", "|", "{", "{", "q", "u", "o", "t", "e", "|", "x", "}", "}", "}", "}">>,
             <<"x", " ", "{", "{", "s", "t", "u", "b", "}", "}", " ", "y">>,
             <<"{", "{", "I", "n", "f", "o", "b", "o", "x", "|", "a", " ", "=", " ", "1", "|", "I", "m", "a", "g", "e", " ", "=", " ", "i", "|", "b", "=", "|", "c", "|", "d", " ", "=", " ", "2", "}", "}">>,
             <<"{", "{", "i", "n", "f", "o", "b", "o", "x", "|", "I", "C", "O", "N", "=", "x", "|", " ", "k", " ", "k", " ", "=", " ", "v", "=", "v", " ", "|", "x", "-", "y", " ", "=", " ", "z", "|", "=", " ", "w", "|", "_", " ", "=", " ", "|", "c", "a", "p", "t", "i", "o", "n", " ", "=", " ", "c", "}", "}">>,
             <<"{", "{", "I", "n", "f", "o", "B", "o", "x", " ", "x", "|", "i", "m", "a", "g", "e", " ", "w", "i", "d", "t", "h", " ", "=", " ", "3", "|", "i", "m", "a", "g", "e", "w", "i", "d", "t", "h", " ", "=", " ", "4", "|", "R", "o", "w", "s", "p", "a", "n", " ", " ", "=", "5", "|", "e", " ", "=", " ", " ", "}", "}">>,
             page, Nested(maxIterations), Nested(maxIterations + 1)}

\* parseWikitext is called: the statements before processTemplates, and
\* the locals of processTemplates before its loop. run counts the calls:
\* in the second the raw text is the result of the first, kept in first
ParseStarted(raw, run, first) ==
  [pc |-> "templates", raw |-> raw, text |-> BeforeTemplates(raw),
   previous |-> <<>>, iterations |-> 0, matched |-> {},
   run |-> run, first |-> first]

ParseWikitext(raw) ==
  /\ Idle
  /\ ~tx.active
  /\ parse = NoParse
  /\ parse' = ParseStarted(raw, 1, <<>>)
  /\ UNCHANGED <<scrape, categories, pages, fts, seq, clock, tx, last, obs, supplied>>

\* one turn of the while loop of processTemplates; matched keeps every
\* template replaced in this call with the text it gave
ParseTemplatePass ==
  /\ parse.pc = "templates"
  /\ TemplateLoopGoesOn(parse.text, parse.previous, parse.iterations)
  /\ parse' = [parse EXCEPT
                 !.previous = parse.text,
                 !.iterations = @ + 1,
                 !.text = TemplatePass(parse.text),
                 !.matched = @ \cup
                   {<<content, extractTemplateText(content)>> :
                      content \in MatchedTemplates(parse.text)}]
  /\ UNCHANGED <<scrape, categories, pages, fts, seq, clock, tx, last, obs, supplied>>

\* the while loop ends, processTemplates returns; processTables
ParseTables ==
  /\ parse.pc = "templates"
  /\ ~TemplateLoopGoesOn(parse.text, parse.previous, parse.iterations)
  /\ parse' = [parse EXCEPT !.pc = "links",
                            !.text = processTables(parse.text)]
  /\ UNCHANGED <<scrape, categories, pages, fts, seq, clock, tx, last, obs, supplied>>

\* the four statements that convert links
ParseLinks ==
  /\ parse.pc = "links"
  /\ parse' = [parse EXCEPT !.pc = "inline",
                            !.text = ConvertLinks(parse.text)]
  /\ UNCHANGED <<scrape, categories, pages, fts, seq, clock, tx, last, obs, supplied>>

\* the statements for headers, bold and italic, and the HTML tags
ParseInline ==
  /\ parse.pc = "inline"
  /\ parse' = [parse EXCEPT !.pc = "lines",
                            !.text = ConvertInline(parse.text)]
  /\ UNCHANGED <<scrape, categories, pages, fts, seq, clock, tx, last, obs, supplied>>

\* the statements for lists and horizontal rules
ParseLines ==
  /\ parse.pc = "lines"
  /\ parse' = [parse EXCEPT !.pc = "entities",
                            !.text = ConvertLines(parse.text)]
  /\ UNCHANGED <<scrape, categories, pages, fts, seq, clock, tx, last, obs, supplied>>

\* decodeHtmlEntities
ParseEntities ==
  /\ parse.pc = "entities"
  /\ parse' = [parse EXCEPT !.pc = "space",
                            !.text = decodeHtmlEntities(parse.text)]
  /\ UNCHANGED <<scrape, categories, pages, fts, seq, clock, tx, last, obs, supplied>>

\* the last statements; parseWikitext returns parse.text
ParseWhitespace ==
  /\ parse.pc = "space"
  /\ parse' = [parse EXCEPT !.pc = "done",
                            !.text = CollapseWhitespace(parse.text)]
  /\ UNCHANGED <<scrape, categories, pages, fts, seq, clock, tx, last, obs, supplied>>

\* parseWikitext is called with the text it returned
ParseOwnOutput ==
  /\ parse.pc = "done"
  /\ parse.run = 1
  /\ parse' = ParseStarted(parse.text, 2, parse.text)
  /\ UNCHANGED <<scrape, categories, pages, fts, seq, clock, tx, last, obs, supplied>>

\* the caller takes the result
ParseReturn ==
  /\ parse.pc = "done"
  /\ parse' = NoParse
  /\ UNCHANGED <<scrape, categories, pages, fts, seq, clock, tx, last, obs, supplied>>

NextParser ==
  \/ \E raw \in RawInputs : ParseWikitext(raw)
  \/ ParseTemplatePass
  \/ ParseTables
  \/ ParseLinks
  \/ ParseInline
  \/ ParseLines
  \/ ParseEntities
  \/ ParseWhitespace
  \/ ParseOwnOutput
  \/ ParseReturn

SpecParser == Init /\ [][NextParser]_vars

\* ------------------------------------------------------------------------
\* upsertPages statement by statement, with a reader on another connection
\* ------------------------------------------------------------------------

\* transaction(pages) starts: BEGIN
BeginUpsertPages(batch) ==
  /\ Idle
  /\ ~tx.active
  /\ seq + Len(batch) <= MaxWrites
  /\ tx' = [active |-> TRUE, pre |-> Committed, work |-> Committed,
            batch |-> batch, rest |-> batch, nows |-> <<>>]
  /\ obs' = NoCall
  /\ UNCHANGED <<scrape, parse, categories, pages, fts, seq, clock, last, supplied>>

\* the next stmt.run of the loop; an exception leaves the loop, the wrapper
\* rolls back and rethrows to the caller of upsertPages
RunStatement ==
  /\ Idle
  /\ tx.active
  /\ tx.rest # <<>>
  /\ LET r == UpsertStmt(tx.work, Head(tx.rest), clock) IN
       IF r.threw
       THEN LET db == Rollback(Committed, tx.work) IN
            /\ pages' = db.pages
            /\ fts' = db.fts
            /\ seq' = db.seq
            /\ tx' = NoTx
            /\ last' = [op |-> "upsertPages", batch |-> tx.batch,
                        threw |-> TRUE, pre |-> tx.pre]
       ELSE LET db == VisibleInTransaction(Committed, r.db) IN
            /\ pages' = db.pages
            /\ fts' = db.fts
            /\ seq' = db.seq
            /\ tx' = [tx EXCEPT !.work = r.db, !.rest = Tail(tx.rest),
                                !.nows = Append(tx.nows, clock)]
            /\ last' = last
  /\ obs' = NoCall
  /\ UNCHANGED <<scrape, parse, categories, clock, supplied>>

\* the loop is over: COMMIT, upsertPages returns
CommitUpsertPages ==
  /\ Idle
  /\ tx.active
  /\ tx.rest = <<>>
  /\ LET db == Commit(Committed, tx.work) IN
       /\ pages' = db.pages
       /\ fts' = db.fts
       /\ seq' = db.seq
  /\ tx' = NoTx
  /\ last' = [op |-> "upsertPages", batch |-> tx.batch, threw |-> FALSE,
              pre |-> tx.pre, nows |-> tx.nows]
  /\ supplied' = Supply(supplied, tx.batch)
  /\ obs' = NoCall
  /\ UNCHANGED <<scrape, parse, categories, clock>>

\* a reader on another connection (the server process while a scrape
\* runs) reads the database: what it reads is the committed database
ConcurrentRead ==
  /\ Idle
  /\ obs' = [op |-> "read", inTx |-> tx.active,
             pre |-> IF tx.active THEN tx.pre ELSE Committed,
             count |-> getPageCount(pages), titles |-> getAllTitles(pages),
             pages |-> pages, fts |-> fts]
  /\ UNCHANGED <<scrape, parse, categories, pages, fts, seq, clock, tx, last, supplied>>

NextTxn ==
  \/ Tick
  \/ \E batch \in Batches : BeginUpsertPages(batch)
  \/ RunStatement
  \/ CommitUpsertPages
  \/ ConcurrentRead
  \/ Return

SpecTxn == Init /\ [][NextTxn]_vars

\* ------------------------------------------------------------------------
\* scrapeWiki (src/src/scraper.ts): the run of the scraper on the database
\* ------------------------------------------------------------------------

\* the most titles fetchAllPageTitles returns in a run
MaxTitles == 3

\* titleToUrl(title): WIKI_BASE + encodeURIComponent(title.replace(/ /g,
\* "_")); encodeURIComponent leaves letters, digits and - _ . ! ~ * ' ( )
\* as they are and writes every other character of ASCII as % and the two
\* hexadecimal digits of its code (the titles of the model are ASCII)
titleToUrl(title) ==
  LET WIKI_BASE ==
        <<"h", "t", "t", "p", "s", ":", "/", "/", "s", "n">> \o
        <<"e", "a", "k", "y", "-", "s", "a", "s", "q", "u">> \o
        <<"a", "t", "c", "h", ".", "f", "a", "n", "d", "o">> \o
        <<"m", ".", "c", "o", "m", "/", "w", "i", "k", "i">> \o
        <<"/">>
      hex == <<"0", "1", "2", "3", "4", "5", "6", "7", "8", "9",
               "A", "B", "C", "D", "E", "F">>
      unreserved == UpperCase \cup LowerCase \cup Digits \cup
                    {"-", "_", ".", "!", "~", "*", "'", "(", ")"}
      Encoded(c) ==
        IF c \in unreserved THEN <<c>>
        ELSE <<"%", hex[(CodePoint(c) \div 16) + 1],
               hex[(CodePoint(c) % 16) + 1]>>
      underscored == [k \in DOMAIN title |->
                        IF title[k] = " " THEN "_" ELSE title[k]]
  IN WIKI_BASE \o Concat([k \in DOMAIN underscored |-> Encoded(underscored[k])])

\* the wiki of the model. titles is the list of its pages in the order
\* the allpages request returns them; answers gives for each title the
\* answers the parse request may get: the page with its wikitext and its
\* categories, an error answer, an answer without wikitext, or a request
\* that raises. "A", "a" and "b" are pages of 28, of exactly 20 and of 25
\* characters of plain text, "a b" is a page of 19 characters of plain
\* text (its raw text is longer), "B" cannot be fetched. revisions gives the timestamp
\* of the last revision, Null where the request yields none
Wiki ==
  LET Page(wikitext, list) ==
        [kind |-> "page", wikitext |-> wikitext, categories |-> list]
      answers ==
        (<<"A">> :> {Page(<<"'", "'", "'", "A", "'", "'", "'", " ", "i", "s">> \o
                          <<" ", "a", " ", "[", "[", "f", "i", "s", "h", "|">> \o
                          <<"b", "i", "g", " ", "f", "i", "s", "h", "]", "]">> \o
                          <<" ", "i", "n", " ", "{", "{", "c", "o", "l", "o">> \o
                          <<"r", "|", "r", "e", "d", "|", "t", "h", "e", "}">> \o
                          <<"}", " ", "l", "a", "k", "e", ".">>,
                          <<<<"T">>, <<"T", "_", "s">>, <<"_", "_", "x">>>>)})
        @@ (<<"B">> :> {[kind |-> "error"], [kind |-> "nowikitext"],
                        [kind |-> "raised"]})
        @@ (<<"a">> :> {Page(<<"'", "'", "a", "b", "c", "d", "e", "f", "g", "h">> \o
                          <<"i", "j", "'", "'", " ", "k", "l", "m", "n", "o">> \o
                          <<"p", "q", "r", "s">>,
                             <<<<"t">>>>)})
        @@ (<<"a", " ", "b">> :> {Page(<<"[", "[", "a", "b", "c", "d", "e", "f", "g", "h">> \o
                          <<"i", "j", "]", "]", " ", "k", "l", "m", "n", "o">> \o
                          <<"p", "q", "&", "a", "m", "p", ";">>,
                                       <<>>)})
        @@ (<<"b">> :> {Page(<<"*", " ", "b", "a", "i", "t", " ", "&", "a", "m">> \o
                          <<"p", ";", " ", "t", "a", "c", "k", "l", "e", " ">> \o
                          <<"f", "o", "r", " ", "a", " ", "&", "n", "b", "s">> \o
                          <<"p", ";", " ", "d", "a", "y">>,
                             <<<<"T">>>>)})
  IN [titles |-> << <<"A">>, <<"B">>, <<"a">>, <<"a", " ", "b">>, <<"b">> >>,
      answers |-> answers,
      revisions |-> [t \in DOMAIN answers |->
                       IF t = <<"A">> THEN <<"m">> ELSE Null]]

\* the answer a request for the content of a page never yields
ContentOfEveryAnswer(response) ==
  [found |-> TRUE,
   wikitext |-> IF response.kind = "page" THEN response.wikitext
                ELSE <<"'", "'", "a", "b", "c", "d", "e", "f", "g", "h", "i",
                       "j", "'", "'", " ", "k", "l", "m", "n", "o", "p", "q",
                       "r", "s">>,
   categories |-> <<>>]

\* fetchPageContent(title), given the answer to its request: null (found
\* is FALSE) for an
\* error answer, for an answer without wikitext and for a request that
\* raises; else the wikitext and the categories, "_" written as " " and
\* the names that start with "__" left out
fetchPageContent(response) ==
  IF response.kind # "page" THEN [found |-> FALSE]
  ELSE LET spaced == [k \in DOMAIN response.categories |->
                        [j \in DOMAIN response.categories[k] |->
                           IF response.categories[k][j] = "_" THEN " "
                           ELSE response.categories[k][j]]]
       IN [found |-> TRUE, wikitext |-> response.wikitext,
           categories |-> SelectSeq(spaced,
                            LAMBDA c : ~At(c, 1, <<"_", "_">>))]

\* every title is scraped, whatever the database holds
EveryTitle(titles, incremental, p) == titles

\* pagesToScrape: every title, or in incremental mode the titles that
\* getAllTitles does not return
pagesToScrape(titles, incremental, p) ==
  IF incremental
  THEN LET existingTitles == {getAllTitles(p)[k] : k \in DOMAIN getAllTitles(p)}
       IN SelectSeq(titles, LAMBDA t : t \notin existingTitles)
  ELSE titles

\* the batch is never written inside the loop
BatchNeverFull(batch, batchSize) == FALSE

\* batch.length >= batchSize
BatchIsFull(batch, batchSize) == Len(batch) >= batchSize

\* scrapeWiki({incremental, db, batchSize}) up to its loop, fetchAllPageTitles
\* having returned titles; in incremental mode with no new title the call
\* returns here. start keeps the tables as they were, requests and calls
\* keep what the run asked of the wiki and of the database
ScrapeWiki(titles, incremental, batchSize) ==
  /\ Idle
  /\ ~tx.active
  /\ scrape = NoScrape
  /\ LET todo == pagesToScrape(titles, incremental, pages)
         early == incremental /\ Len(todo) = 0
     IN /\ seq + Len(todo) <= MaxWrites
        /\ scrape' = [pc |-> IF early THEN "done" ELSE "loop",
                      early |-> early, incremental |-> incremental,
                      batchSize |-> batchSize, titles |-> titles,
                      todo |-> todo, total |-> Len(todo), processed |-> 0,
                      failed |-> 0, batch |-> <<>>, content |-> Null,
                      stored |-> Null,
                      start |-> [pages |-> pages, categories |-> categories],
                      requests |-> <<>>, calls |-> <<>>]
  /\ UNCHANGED <<parse, categories, pages, fts, seq, clock, tx, last, obs, supplied>>

\* one turn of the loop over pagesToScrape up to the call of parseWikitext,
\* the request for the content answered by response: a page that cannot
\* be fetched is counted and left out, the wikitext of any other is given
\* to parseWikitext, whose statements run next. requests keeps the title,
\* the kind of the answer and, once parsed, the length of the plain text
ScrapeFetch(response) ==
  /\ obs = NoCall
  /\ scrape.pc = "loop"
  /\ scrape.todo # <<>>
  /\ parse = NoParse
  /\ LET title == Head(scrape.todo)
         content == fetchPageContent(response)
         turn == [scrape EXCEPT
                    !.processed = @ + 1,
                    !.requests = Append(@, [title |-> title,
                                            kind |-> response.kind,
                                            chars |-> 0])]
     IN /\ response \in Wiki.answers[title]
        /\ IF ~content.found
           THEN /\ scrape' = [turn EXCEPT !.todo = Tail(@), !.failed = @ + 1]
                /\ UNCHANGED parse
           ELSE /\ scrape' = [turn EXCEPT !.pc = "parsing", !.content = content]
                /\ parse' = ParseStarted(content.wikitext, 1, <<>>)
  /\ UNCHANGED <<categories, pages, fts, seq, clock, tx, last, obs, supplied>>

\* the turn of the loop after parseWikitext returned: a page of fewer than
\* 20 characters of plain text is left out, any other is added to the
\* batch with the timestamp fetchLastModified yields, and a full batch is
\* written
ScrapeParsed ==
  /\ obs = NoCall
  /\ scrape.pc = "parsing"
  /\ parse.pc = "done"
  /\ parse' = NoParse
  /\ LET title == Head(scrape.todo)
         plainText == parse.text
         turn == [scrape EXCEPT
                    !.pc = "loop", !.todo = Tail(@), !.content = Null,
                    !.requests[Len(scrape.requests)].chars =
                       Len(plainText)]
     IN IF Len(plainText) < 20
        THEN /\ scrape' = turn
             /\ UNCHANGED <<pages, fts, seq, supplied>>
        ELSE LET pageData == PageData(title, plainText, titleToUrl(title),
                                      scrape.content.categories,
                                      Wiki.revisions[title])
                 batch == Append(scrape.batch, pageData)
             IN IF BatchIsFull(batch, scrape.batchSize)
                THEN LET r == TransactionRun(Committed, batch,
                                [i \in DOMAIN batch |-> clock])
                     IN /\ pages' = r.db.pages
                        /\ fts' = r.db.fts
                        /\ seq' = r.db.seq
                        /\ supplied' = IF r.threw THEN supplied
                                       ELSE Supply(supplied, batch)
                        /\ scrape' =
                             [turn EXCEPT
                                !.pc = IF r.threw THEN "raised" ELSE @,
                                !.batch = IF r.threw THEN batch ELSE <<>>,
                                !.calls = Append(@,
                                  [op |-> "upsertPages", batch |-> batch])]
                ELSE /\ scrape' = [turn EXCEPT !.batch = batch]
                     /\ UNCHANGED <<pages, fts, seq, supplied>>
  /\ UNCHANGED <<categories, clock, tx, last, obs>>

\* after the loop: the pages that remain in the batch are written
ScrapeFlush ==
  /\ obs = NoCall
  /\ scrape.pc = "loop"
  /\ scrape.todo = <<>>
  /\ IF Len(scrape.batch) > 0
     THEN LET r == TransactionRun(Committed, scrape.batch,
                     [i \in DOMAIN scrape.batch |-> clock])
          IN /\ pages' = r.db.pages
             /\ fts' = r.db.fts
             /\ seq' = r.db.seq
             /\ supplied' = IF r.threw THEN supplied
                            ELSE Supply(supplied, scrape.batch)
             /\ scrape' = [scrape EXCEPT
                             !.pc = IF r.threw THEN "raised" ELSE "refresh",
                             !.calls = Append(@, [op |-> "upsertPages",
                                                  batch |-> scrape.batch])]
     ELSE /\ scrape' = [scrape EXCEPT !.pc = "refresh"]
          /\ UNCHANGED <<pages, fts, seq, supplied>>
  /\ UNCHANGED <<parse, categories, clock, tx, last, obs>>

\* db.refreshCategories(), its first statement: DELETE FROM categories,
\* run by db.exec outside a transaction and so committed at once
RefreshDelete ==
  /\ obs = NoCall
  /\ scrape.pc = "refresh"
  /\ categories' = DeleteCategories(categories)
  /\ scrape' = [scrape EXCEPT
                  !.pc = "insert",
                  !.calls = Append(@, [op |-> "refreshCategories",
                                       before |-> getCategories(categories),
                                       pages |-> pages])]
  /\ UNCHANGED <<parse, pages, fts, seq, clock, tx, last, obs, supplied>>

\* the rest of refreshCategories, the counts of the pages inserted in one
\* transaction, and the end of scrapeWiki, which logs processed - failed
\* as the number of pages stored. The transaction may raise (a database
\* that is locked or full): no row is inserted then and scrapeWiki raises
ScrapeComplete(raises) ==
  /\ obs = NoCall
  /\ scrape.pc = "insert"
  /\ IF raises
     THEN /\ scrape' = [scrape EXCEPT !.pc = "raised"]
          /\ UNCHANGED categories
     ELSE /\ categories' = InsertCounts(categories, CategoryCounts(pages),
                                        DOMAIN CategoryCounts(pages))
          /\ scrape' = [scrape EXCEPT
                          !.pc = "done",
                          !.stored = scrape.processed - scrape.failed]
  /\ UNCHANGED <<parse, pages, fts, seq, clock, tx, last, obs, supplied>>

\* the promise of scrapeWiki is settled, fulfilled or rejected; the next
\* run starts from there
ScrapeReturn ==
  /\ obs = NoCall
  /\ scrape.pc \in {"done", "raised"}
  /\ scrape' = NoScrape
  /\ UNCHANGED <<parse, categories, pages, fts, seq, clock, tx, last, obs, supplied>>

\* runs of the scraper, full and incremental, with the batch sizes -1, 0,
\* 1, 2 and the default 25, on at most MaxTitles pages of the wiki, while the
\* server lists the categories
NextScrape ==
  \/ \E listed \in {set \in SUBSET DOMAIN Wiki.answers :
                       Cardinality(set) <= MaxTitles} :
       \E incremental \in BOOLEAN : \E batchSize \in {-1, 0, 1, 2, 25} :
         ScrapeWiki(SelectSeq(Wiki.titles, LAMBDA t : t \in listed),
                    incremental, batchSize)
  \/ \E response \in UNION {Wiki.answers[t] : t \in DOMAIN Wiki.answers} :
       ScrapeFetch(response)
  \/ ParseTemplatePass
  \/ ParseTables
  \/ ParseLinks
  \/ ParseInline
  \/ ParseLines
  \/ ParseEntities
  \/ ParseWhitespace
  \/ ScrapeParsed
  \/ ScrapeFlush
  \/ RefreshDelete
  \/ \E raises \in BOOLEAN : ScrapeComplete(raises)
  \/ ScrapeReturn
  \/ (parse = NoParse /\ GetCategories)
  \/ Return

SpecScrape == Init /\ [][NextScrape]_vars

\* ------------------------------------------------------------------------
\* Claims
\* ------------------------------------------------------------------------

\* C1: no two stored pages have titles that are equal when case is ignored
\* (an upsert of a title that differs only in case from a stored title
\* replaces that page instead of adding a second one).
C1_TitlesUniqueIgnoringCase ==
  \A r1 \in pages : \A r2 \in pages :
    NoCase(r1.title) = NoCase(r2.title) => r1 = r2

\* C2: getPage called with any casing of the title of a page that was
\* upserted returns that page, with the categories supplied at its upsert.
C2_GetPageAnyCasing ==
  obs.op = "getPage" =>
    \A q \in supplied :
      NoCase(q.title) = NoCase(obs.title) =>
        /\ obs.page.found
        /\ obs.page.title = q.title
        /\ obs.page.categories = q.categories

\* the pages of a batch that are the last of the batch under their title
LastWritten(batch) ==
  {batch[i] : i \in {j \in DOMAIN batch :
                       \A k \in DOMAIN batch :
                         batch[k].title = batch[j].title => k <= j}}

\* C6: an upsert of a title that already exists keeps the page count and
\* replaces content, url, categories and last_modified in full: getPage
\* then returns exactly the values of the last upsert.
C6_UpsertExistingReplaces ==
  (last.op \in {"upsertPage", "upsertPages"} /\ ~last.threw) =>
    /\ (\A i \in DOMAIN last.batch :
          ConflictRows(last.pre.pages, last.batch[i].title) # {})
       => getPageCount(pages) = getPageCount(last.pre.pages)
    /\ \A q \in LastWritten(last.batch) :
         ConflictRows(last.pre.pages, q.title) # {} =>
           LET got == getPage(pages, q.title) IN
           /\ got.found
           /\ got.content = q.content
           /\ got.url = q.url
           /\ got.categories = q.categories
           /\ got.last_modified = q.last_modified

\* C3: upsertPages is all-or-nothing: when the write of an element of the
\* batch fails, the failure reaches the caller and the store is as before
\* the call, also for the elements that came before the failing one.
C3_BatchAllOrNothing ==
  last.op = "upsertPages" =>
    /\ (\E i \in DOMAIN last.batch : last.batch[i] \in InvalidPages)
         => last.threw
    /\ last.threw =>
         /\ getPageCount(pages) = getPageCount(last.pre.pages)
         /\ pages = last.pre.pages
         /\ fts = last.pre.fts

\* a batch failed at its second element after its first element was written
\* as a new page in the transaction
C3_Witness ==
  /\ last.op = "upsertPages"
  /\ last.threw
  /\ Len(last.batch) = 2
  /\ last.batch[1] \in ValidPages
  /\ ConflictRows(last.pre.pages, last.batch[1].title) = {}
  /\ last.batch[2] \in InvalidPages

\* the titles of the rows a search for the one word term returns, no limit
TitlesFound(db, term) ==
  LET rows == searchPages(db, term, -1).rows IN
  {rows[i].title : i \in DOMAIN rows}

\* the words a page is searched by
SearchTerms == {<<"a">>, <<"b">>, <<"c">>}

\* the set of the elements of a sequence
Range(q) == {q[i] : i \in DOMAIN q}

\* C4: after every successful upsert the text index holds exactly one entry
\* per stored page, with the current title and content of the page: a
\* search for a word finds exactly the pages that hold it now.
C4_IndexInSync ==
  /\ BagToSet(fts) = {FtsEntry(r) : r \in pages}
  /\ \A e \in BagToSet(fts) : CopiesIn(e, fts) = 1
  /\ Cardinality(BagToSet(fts)) = Cardinality(pages)
  /\ \A term \in SearchTerms :
       TitlesFound(Committed, term) =
         {r.title : r \in {x \in pages :
            term \in Range(Tokenize(x.title)) \cup Range(Tokenize(x.content))}}

\* a page was replaced by an upsert with another content: the word only the
\* new content holds finds it, the word only the old content held does not
C4_Witness ==
  /\ last.op = "upsertPage"
  /\ ~last.threw
  /\ \E old \in last.pre.pages :
       /\ old.title = last.batch[1].title
       /\ old.content = <<"a", " ", "b">>
       /\ last.batch[1].content = <<"c">>
       /\ old.title \in TitlesFound(last.pre, <<"b">>)
       /\ old.title \notin TitlesFound(Committed, <<"b">>)
       /\ old.title \in TitlesFound(Committed, <<"c">>)

\* C5: a reader that runs while upsertPages is in progress sees the state
\* before the whole batch, and after the call the state with the whole
\* batch applied: never a part of the batch, in the pages or in the index.
C5_NoPartialBatchSeen ==
  /\ (obs.op = "read" /\ obs.inTx) =>
       /\ obs.pages = obs.pre.pages
       /\ obs.fts = obs.pre.fts
       /\ obs.count = getPageCount(obs.pre.pages)
       /\ obs.titles = getAllTitles(obs.pre.pages)
  /\ (last.op = "upsertPages" /\ ~last.threw) =>
       LET whole == TransactionBody(last.pre, last.batch, last.nows).db IN
       /\ pages = whole.pages
       /\ fts = whole.fts

\* a read was made when the first statement of a batch of two had changed
\* the working copy and the second had not run yet
C5_Witness ==
  /\ obs.op = "read"
  /\ obs.inTx
  /\ tx.active
  /\ Len(tx.batch) = 2
  /\ Len(tx.rest) = 1
  /\ tx.work.pages # tx.pre.pages

\* the characters of a query that are punctuation
IsPunctuation(c) == c \in {"!", "-", "_"}

\* a query that is empty or made of punctuation only
OnlyPunctuation(query) == \A i \in DOMAIN query : IsPunctuation(query[i])

\* C7 as stated: searchPages on the empty string or on a string of
\* punctuation only returns the empty sequence, and no query is issued to
\* the index.
C7_PunctuationNoQuery ==
  (obs.op = "searchPages" /\ OnlyPunctuation(obs.query)) =>
    /\ obs.result.rows = <<>>
    /\ ~obs.result.issued

\* C7 amended: searchPages on the empty string or on a string of
\* punctuation only returns the empty sequence and raises nothing; the
\* index is queried exactly when the string holds a hyphen or an
\* underscore, which the sanitizer keeps.
C7_PunctuationEmptyResult ==
  (obs.op = "searchPages" /\ OnlyPunctuation(obs.query)) =>
    /\ obs.result.rows = <<>>
    /\ ~obs.result.threw
    /\ obs.result.issued <=>
         (\E i \in DOMAIN obs.query : obs.query[i] \in {"-", "_"})

\* the query "-" was searched in a store with pages: the index was queried
\* and nothing was found
C7_Witness ==
  /\ obs.op = "searchPages"
  /\ obs.query = <<"-">>
  /\ obs.result.issued
  /\ obs.result.rows = <<>>
  /\ pages # {}

\* the number of stored pages that hold every phrase of the query, when
\* the query has a phrase with a term
MatchCount(query) ==
  LET parsed == FtsParse(sanitizeFtsQuery(query)) IN
  IF ~parsed.ok \/ RealPhrases(parsed) = {} THEN 0
  ELSE Cardinality({r \in pages :
         \A j \in RealPhrases(parsed) :
           \/ PhraseCount(parsed.phrases[j], Tokenize(r.title)) > 0
           \/ PhraseCount(parsed.phrases[j], Tokenize(r.content)) > 0})

\* C8 as stated: for every query, store state and limit passed to
\* searchPages, the returned sequence has at most limit elements.
C8_AtMostLimit ==
  obs.op = "searchPages" => Len(obs.result.rows) <= obs.limit

\* C8 amended: for every limit that is not negative the returned sequence
\* has at most limit elements; a negative limit is no limit, every matching
\* page is returned.
C8_AtMostLimitNonNegative ==
  obs.op = "searchPages" =>
    /\ obs.limit >= 0 => Len(obs.result.rows) <= obs.limit
    /\ obs.limit < 0 => Len(obs.result.rows) = MatchCount(obs.query)

\* a search with limit 1 returned one row of several matching pages
C8_Witness ==
  /\ obs.op = "searchPages"
  /\ obs.limit = 1
  /\ Len(obs.result.rows) = 1
  /\ MatchCount(obs.query) >= 2

\* the text t holds the text s, case ignored
HoldsText(t, s) ==
  \E i \in 1..(Len(t) - Len(s) + 1) :
    NoCase(SubSeq(t, i, i + Len(s) - 1)) = NoCase(s)

\* the words of the token follow each other in the words of the text
HoldsWords(text, token) ==
  LET words == Tokenize(token)
      terms == Tokenize(text) IN
  \E i \in 1..(Len(terms) - Len(words) + 1) :
    \A j \in DOMAIN words : terms[i + j - 1] = words[j]

\* the stored page of a returned row
PageOf(row) == CHOOSE r \in pages : r.title = row.title

Occurrences(r, word) ==
  PhraseCount(<<word>>, Tokenize(r.title)) +
  PhraseCount(<<word>>, Tokenize(r.content))

\* C10: searchPages weights the title more than the content: for a query
\* of one word, a page that holds the word in its title is ranked before a
\* page that holds it in its content only, all else equal (as many
\* occurrences of the word, as many words in all).
C10_TitleRankedFirst ==
  (obs.op = "searchPages" /\ obs.limit < 0 /\ obs.query \in SearchTerms) =>
    \A i \in DOMAIN obs.result.rows : \A j \in DOMAIN obs.result.rows :
      LET x == PageOf(obs.result.rows[i])
          y == PageOf(obs.result.rows[j]) IN
      (/\ PhraseCount(<<obs.query>>, Tokenize(x.title)) > 0
       /\ PhraseCount(<<obs.query>>, Tokenize(y.title)) = 0
       /\ Occurrences(x, obs.query) = Occurrences(y, obs.query)
       /\ EntrySize(FtsEntry(x)) = EntrySize(FtsEntry(y)))
      => i < j

\* the strings between quotation marks of a MATCH text, after its colon
RECURSIVE QuotedFrom(_, _, _)
QuotedFrom(t, i, acc) ==
  LET open == IndexOf(t, "\"", i) IN
  IF open = 0 THEN acc
  ELSE LET close == IndexOf(t, "\"", open + 1) IN
       IF close = 0 THEN acc
       ELSE QuotedFrom(t, close + 1, Append(acc, SubSeq(t, open + 1, close - 1)))

MatchStrings(t) == QuotedFrom(t, IndexOf(t, ":", 1) + 1, <<>>)

\* a character a token of the query is made of
InToken(c) == IsWordChar(c) \/ c = "-"

\* the runs of token characters of the query that no token character
\* borders, from left to right
RECURSIVE RunsFrom(_, _)
RunsFrom(query, i) ==
  IF i > Len(query) THEN <<>>
  ELSE IF ~InToken(query[i]) THEN RunsFrom(query, i + 1)
  ELSE LET end == CHOOSE j \in i..Len(query) :
                    /\ \A k \in i..j : InToken(query[k])
                    /\ j = Len(query) \/ ~InToken(query[j + 1])
       IN <<SubSeq(query, i, end)>> \o RunsFrom(query, end + 1)

\* the tokens of the query when every character that is not a word
\* character, whitespace or hyphen is deleted: the words between whitespace
\* of what remains
DeletedTokens(query) ==
  LET kept == SelectSeq(query, LAMBDA c : InToken(c) \/ IsSpace(c))
      starts == {i \in DOMAIN kept :
                   ~IsSpace(kept[i]) /\ (i = 1 \/ IsSpace(kept[i - 1]))}
      word(i) == SubSeq(kept, i,
                   CHOOSE j \in i..Len(kept) :
                     /\ \A k \in i..j : ~IsSpace(kept[k])
                     /\ j = Len(kept) \/ IsSpace(kept[j + 1]))
      RECURSIVE InOrder(_)
      InOrder(set) ==
        IF set = {} THEN <<>>
        ELSE LET m == CHOOSE i \in set : \A o \in set : i <= o
             IN <<word(m)>> \o InOrder(set \ {m})
  IN InOrder(starts)

\* C11 as stated: the tokens are those of the query with every character
\* that is not a word character, whitespace or hyphen deleted, split on
\* whitespace; the index is queried with exactly these tokens.
C11_TokensAfterDeleting ==
  obs.op = "searchPages" =>
    LET tokens == DeletedTokens(obs.query) IN
    /\ obs.result.issued <=> tokens # <<>>
    /\ obs.result.issued => MatchStrings(obs.result.match) = tokens

\* C11 amended: the tokens are those of the query with every character
\* that is not a word character, whitespace or hyphen replaced by a space,
\* split on whitespace (the runs of word characters and hyphens of the
\* query); the index is queried with exactly these tokens, each as a quoted
\* phrase, and not at all when there is none.
C11_TokensAfterReplacing ==
  obs.op = "searchPages" =>
    LET tokens == RunsFrom(obs.query, 1) IN
    /\ obs.result.issued <=> tokens # <<>>
    /\ obs.result.issued => MatchStrings(obs.result.match) = tokens

\* the query "a!c" was searched: the index was queried with the two tokens
\* "a" and "c"
C11_Witness ==
  /\ obs.op = "searchPages"
  /\ obs.query = <<"a", "!", "c">>
  /\ obs.result.issued
  /\ MatchStrings(obs.result.match) = << <<"a">>, <<"c">> >>

\* the names of the list of categories stored with a row of pages
NamesOf(row) == {ParsedCategories(row)[i] : i \in DOMAIN ParsedCategories(row)}

\* the stored pages whose list of categories contains the name
Carrying(name) == {r \in pages : name \in NamesOf(r)}

\* C12: in every state of the store each row of categories has the
\* page_count that is the number of stored pages whose list contains its
\* name, and no row is kept for a name no page carries.
C12_CountsAlwaysCurrent ==
  \A row \in categories :
    /\ row.page_count = Cardinality(Carrying(row.name))
    /\ Carrying(row.name) # {}

\* C13: right after refreshCategories, getCategories lists exactly the
\* names at least one stored page carries, each once, sorted by name, each
\* with the number of the pages that carry it.
C13_RefreshListsCarried ==
  last.op = "refreshCategories" =>
    LET rows == getCategories(categories)
        names == SortStrings(UNION {NamesOf(r) : r \in pages})
    IN /\ Len(rows) = Len(names)
       /\ \A i \in DOMAIN rows :
            /\ rows[i].name = names[i]
            /\ rows[i].page_count = Cardinality(Carrying(names[i]))

\* C14: refreshCategories run again right after refreshCategories gives the
\* category sequence of the first run, with no name twice.
C14_RefreshIdempotent ==
  (last.op = "refreshCategories" /\ last.again) =>
    LET rows == getCategories(categories) IN
    /\ rows = last.before
    /\ \A i \in DOMAIN rows : \A j \in DOMAIN rows :
         rows[i].name = rows[j].name => i = j

\* refreshCategories ran twice in a row on pages that carry categories
C14_Witness ==
  /\ last.op = "refreshCategories"
  /\ last.again
  /\ Len(last.before) >= 2
  /\ \E i \in DOMAIN last.before : last.before[i].page_count >= 2

\* C15: getPagesByCategory(name) returns, sorted by title, exactly the
\* titles of the pages whose list of categories has name as an element.
C15_ExactElement ==
  obs.op = "getPagesByCategory" =>
    obs.titles = SortStrings({r.title : r \in Carrying(obs.category)})

\* C16: a lookup of a title no page has (getPage, getPageScrapedAt) or of a
\* category no page carries (getPagesByCategory) gives null or the empty
\* sequence, raises nothing and leaves the store as it was.
C16_AbsentGivesEmpty ==
  /\ (obs.op = "getPage" /\ NoCaseRows(pages, obs.title) = {}) =>
       /\ ~obs.page.found
       /\ ~obs.page.threw
       /\ ~obs.scrapedAt.found
  /\ (obs.op = "getPagesByCategory" /\ Carrying(obs.category) = {}) =>
       /\ obs.titles = <<>>
       /\ obs.pre = <<pages, fts, categories>>

\* ------------------------------------------------------------------------
\* Claims about parseWikitext
\* ------------------------------------------------------------------------

\* the text t holds the word w
Holds(t, w) == Find(t, w, 1) # 0

\* the markers of templates and of links
Delimiters == {<<"{", "{">>, <<"}", "}">>, <<"[", "[">>, <<"]", "]">>}

\* C17: the text parseWikitext returns holds no "{{", "}}", "[[" or "]]",
\* whatever the raw text was.
C17_NoResidualDelimiters ==
  parse.pc = "done" => \A d \in Delimiters : ~Holds(parse.text, d)

\* C18: parseWikitext called with the text it returned returns that text
\* again: parseWikitext(parseWikitext(x)) = parseWikitext(x).
C18_IdempotentOnOutput ==
  (parse.pc = "done" /\ parse.run = 2) => parse.text = parse.first

\* a template region that holds no nested open marker: "{{" at i, the next
\* "}}" after it, and no "{{" after position i before that "}}"
RegionClose(t, i) == Find(t, <<"}", "}">>, i + 2)

RegionEnd(t, i) ==
  IF /\ At(t, i, <<"{", "{">>)
     /\ RegionClose(t, i) # 0
     /\ \A j \in (i + 1)..(RegionClose(t, i) - 1) : ~At(t, j, <<"{", "{">>)
  THEN RegionClose(t, i) + 1 ELSE 0

\* every such region of t replaced by the text its template gives
RegionsReplaced(t) ==
  LET Text(s, i) ==
        extractTemplateText(SubSeq(s, i + 2, RegionClose(s, i) - 1))
  IN ReplaceAll(t, RegionEnd, Text)

\* C19: every pass of the loop of processTemplates replaces every template
\* region that holds no nested open marker: the text after a pass is the
\* text before it with each of these regions replaced.
C19_PassReplacesRegions ==
  (parse.pc = "templates" /\ parse.iterations >= 1)
    => parse.text = RegionsReplaced(parse.previous)

\* the k-th segment of a template, empty when it is missing
Segment(parts, k) == IF k <= Len(parts) THEN parts[k] ELSE <<>>

\* the name of a template: its first segment trimmed, in lower case
NameOf(content) == NoCase(Trim(Head(Split(content, <<"|">>))))

\* the text a template gives by the policy of its name; Shown(s) is how a
\* segment is written out, infobox is what a name that starts with
\* "infobox" gives
ByPolicy(content, Shown(_), infobox) ==
  LET parts == Split(content, <<"|">>)
      name == NameOf(content)
      second == Segment(parts, 2)
  IN CASE name \in {<<"q", "u", "o", "t", "e">>, <<"c", "q", "u", "o", "t", "e">>} ->
            IF second = <<>> THEN <<>>
            ELSE <<"\"">> \o Shown(second) \o <<"\"">>
       [] name = <<"c", "o", "l", "o", "r">> ->
            IF Len(parts) >= 3 THEN Shown(parts[3]) ELSE <<>>
       [] name \in {<<"m", "a", "i", "n">>, <<"s", "e", "e", " ", "a", "l", "s", "o">>} ->
            IF second = <<>> THEN <<>>
            ELSE <<"(", "S", "e", "e", ":", " ">> \o Shown(second) \o <<")">>
       [] name = <<"n", "i", "h", "o", "n", "g", "o">> -> Shown(second)
       [] OTHER ->
            IF At(name, 1, <<"i", "n", "f", "o", "b", "o", "x">>) THEN infobox ELSE <<>>

\* the segments of a template after its name
Parameters(content) == Tail(Split(content, <<"|">>))

\* C20 as it was stated: a replaced template gives, by its name, its second
\* segment in quotation marks (quote, cquote), its third segment (color),
\* "(See: " second segment ")" (main, see also), its second segment
\* (nihongo), nothing for an empty or missing segment, and nothing under
\* every other name.
C20_ResolvedByNameOnly ==
  parse.pc # "idle" =>
    \A pair \in parse.matched :
      pair[2] = ByPolicy(pair[1], LAMBDA s : s, <<>>)

\* C20: a replaced template gives, by its trimmed lower-case name: the
\* "key: value" lines of its parameters under a name that starts with
\* "infobox"; else its second segment trimmed, in quotation marks (quote,
\* cquote); its third segment trimmed (color); "(See: " second segment
\* trimmed ")" (main, see also); its second segment trimmed (nihongo);
\* nothing for an empty or missing segment, and nothing under every other
\* name.
C20_ResolvedByPolicy ==
  parse.pc # "idle" =>
    \A pair \in parse.matched :
      pair[2] = ByPolicy(pair[1], Trim,
                         extractInfoboxText(Parameters(pair[1])))

\* an infobox was replaced by a line of its parameters
C20_Witness ==
  /\ parse.pc # "idle"
  /\ \E pair \in parse.matched :
       /\ At(NameOf(pair[1]), 1, <<"i", "n", "f", "o", "b", "o", "x">>)
       /\ pair[2] = <<"k", ":", " ", "v", "\n">>


\* the keys extractInfoboxText leaves out, in lower case
DeniedKeys ==
  {<<"i", "m", "a", "g", "e">>,
   <<"i", "c", "o", "n">>,
   <<"c", "a", "p", "t", "i", "o", "n">>,
   <<"i", "m", "a", "g", "e", "w", "i", "d", "t", "h">>,
   <<"i", "m", "a", "g", "e", "h", "e", "i", "g", "h", "t">>,
   <<"s", "t", "y", "l", "e">>,
   <<"c", "l", "a", "s", "s">>,
   <<"c", "o", "l", "s", "p", "a", "n">>,
   <<"r", "o", "w", "s", "p", "a", "n">>}

\* the line of a segment of an infobox: a segment "key = value" is cut at
\* its first "="; the key is what stands before it, word characters and
\* white space only, trimmed and not empty; the value is what follows,
\* trimmed. A segment of another shape, a denied key and an empty value
\* give no line
LineOf(segment) ==
  LET cut == Split(segment, <<"=">>)
      key == Trim(Head(cut))
      value == Trim(Join(Tail(cut), <<"=">>))
      shaped == /\ Len(cut) >= 2
                /\ key # <<>>
                /\ \A k \in DOMAIN Head(cut) :
                     IsWordChar(Head(cut)[k]) \/ Head(cut)[k] \in WhiteSpace
  IN IF shaped /\ NoCase(key) \notin DeniedKeys /\ value # <<>>
     THEN << key \o <<":", " ">> \o value \o <<"\n">> >>
     ELSE <<>>

\* a replaced template whose name starts with "infobox"
IsInfobox(pair) == At(NameOf(pair[1]), 1, <<"i", "n", "f", "o", "b", "o", "x">>)

\* C21: a template whose name starts with "infobox" gives one line
\* "key: value" for each segment after its name of the shape key = value
\* whose value is not empty and whose key, whatever its case, is not
\* image, icon, caption, imagewidth, imageheight, style, class, colspan or
\* rowspan, in the order of the segments, and no line for another segment.
C21_InfoboxLinesByShape ==
  parse.pc # "idle" =>
    \A pair \in parse.matched :
      IsInfobox(pair) =>
        pair[2] = Concat(Concat([k \in DOMAIN Parameters(pair[1]) |->
                                   LineOf(Parameters(pair[1])[k])]))

\* an infobox with a denied key in another case, a segment without "=",
\* an empty value and two pairs was replaced by the two lines in order
C21_Witness ==
  /\ parse.pc # "idle"
  /\ \E pair \in parse.matched :
       /\ IsInfobox(pair)
       /\ Parameters(pair[1]) =
            <<<<"a", " ", "=", " ", "1">>, <<"I", "m", "a", "g", "e", " ", "=", " ", "i">>, <<"b", "=">>, <<"c">>, <<"d", " ", "=", " ", "2">>>>
       /\ pair[2] = <<"a", ":", " ", "1", "\n", "d", ":", " ", "2", "\n">>


\* ------------------------------------------------------------------------
\* Claims about the titles, the lookups and the counts of categories
\* ------------------------------------------------------------------------

\* the titles of the pages written so far by the calls that returned
SuppliedTitles == {q.title : q \in supplied}

\* C23: after any sequence of upsertPage and upsertPages calls getPageCount
\* is the number of distinct titles written so far, and getAllTitles
\* returns exactly these titles, each once, in ascending order.
C23_CountAndTitles ==
  LET titles == getAllTitles(pages) IN
  /\ getPageCount(pages) = Cardinality(SuppliedTitles)
  /\ {titles[i] : i \in DOMAIN titles} = SuppliedTitles
  /\ Len(titles) = Cardinality(SuppliedTitles)
  /\ \A i \in DOMAIN titles : \A j \in DOMAIN titles :
       i < j => BinaryLess(titles[i], titles[j])

\* three titles, two of them equal up to case, were written in another
\* order than the one getAllTitles returns
C23_Witness ==
  /\ getAllTitles(pages) = << <<"A">>, <<"a">>, <<"b">> >>
  /\ FirstRow(pages).title = <<"b">>
  /\ getPageCount(pages) = 3

\* C27: getPageScrapedAt(t) returns a timestamp exactly when getPage(t)
\* returns a page, whatever the case of t.
C27_LookupsAgree ==
  obs.op = "getPage" => (obs.scrapedAt.found <=> obs.page.found)

\* C28: after refreshCategories, with the pages as they were, every row
\* getCategories lists has the page_count that is the number of titles
\* getPagesByCategory returns for its name.
C28_CountIsPagesListed ==
  last.op = "refreshCategories" =>
    LET rows == getCategories(categories) IN
    \A i \in DOMAIN rows :
      rows[i].page_count = Len(getPagesByCategory(pages, rows[i].name))


\* ------------------------------------------------------------------------
\* Claims about scrapeWiki
\* ------------------------------------------------------------------------

\* a run of scrapeWiki is under way or has just ended
Scraping == scrape # NoScrape

\* the pages the run has passed to upsertPages so far, in the order of the
\* calls
WrittenPages ==
  LET writes == SelectSeq(scrape.calls, LAMBDA c : c.op = "upsertPages")
  IN Concat([k \in DOMAIN writes |-> writes[k].batch])

\* the columns of a row that a scrape fills from the wiki
WikiColumns(r) ==
  [title |-> r.title, content |-> r.content, url |-> r.url,
   categories |-> r.categories, last_modified |-> r.last_modified]

C24_StoredIsWritten ==
  (Scraping /\ scrape.pc = "done" /\ ~scrape.early) =>
    scrape.stored = Len(WrittenPages)

\* the titles of the requests of the run that were answered with a page
\* whose plain text has at least 20 characters, in the order of the requests
FetchedAndLongEnough ==
  LET good == SelectSeq(scrape.requests,
                        LAMBDA q : q.kind = "page" /\ q.chars >= 20)
  IN [k \in DOMAIN good |-> good[k].title]

\* the batches of the calls of upsertPages of the run
WrittenBatches ==
  LET writes == SelectSeq(scrape.calls, LAMBDA c : c.op = "upsertPages")
  IN [k \in DOMAIN writes |-> writes[k].batch]

\* C25 as it is stated: in a completed run in which no write raised, the
\* pages fetched with at least 20 characters of text are passed to
\* upsertPages once each in the order they were fetched, and no batch has
\* more than batchSize pages
C25_BatchesOfAtMostBatchSize ==
  (Scraping /\ scrape.pc = "done" /\ ~scrape.early) =>
    /\ [k \in DOMAIN WrittenPages |-> WrittenPages[k].title]
         = FetchedAndLongEnough
    /\ \A k \in DOMAIN WrittenBatches :
         Len(WrittenBatches[k]) <= scrape.batchSize

\* C25, amended: in a completed run in which no write raised, the pages
\* fetched with at least 20 characters of text are passed to upsertPages
\* once each in the order they were fetched, no batch is empty, no batch
\* has more pages than the larger of 1 and batchSize, and no page is left
\* unwritten when the run ends
C25_BatchesOfAtMostOneOrBatchSize ==
  (Scraping /\ scrape.pc = "done" /\ ~scrape.early) =>
    LET most == IF scrape.batchSize > 1 THEN scrape.batchSize ELSE 1 IN
    /\ [k \in DOMAIN WrittenPages |-> WrittenPages[k].title]
         = FetchedAndLongEnough
    /\ \A k \in DOMAIN WrittenBatches :
         /\ Len(WrittenBatches[k]) >= 1
         /\ Len(WrittenBatches[k]) <= most

\* a run with batchSize 2 has completed with three pages kept: one batch
\* written full inside the loop and the last, partial one after it
C25_Witness ==
  /\ Scraping
  /\ scrape.pc = "done"
  /\ scrape.batchSize = 2
  /\ Len(WrittenBatches) = 2
  /\ Len(WrittenBatches[1]) = 2
  /\ Len(WrittenBatches[2]) = 1

\* C26: a getCategories that runs while refreshCategories is between its
\* DELETE and the end of its inserts returns the rows from before the
\* refresh or the rows from after it, and when the inserts raise the rows
\* from before the refresh are still there
C26_RefreshIsAtomic ==
  LET call == scrape.calls[Len(scrape.calls)]
      after == getCategories(refreshCategories(categories, pages))
  IN /\ (obs.op = "getCategories" /\ Scraping /\ scrape.pc = "insert") =>
          obs.rows \in {call.before, after}
     /\ (Scraping /\ scrape.pc = "raised" /\ scrape.calls # <<>>
           /\ call.op = "refreshCategories") =>
          getCategories(categories) = call.before

\* C29: in a run of scrapeWiki that wrote a page, refreshCategories is
\* called once, after every call of upsertPages, and pages is not written
\* again: the rows it counts hold every page the run wrote, and when the
\* run has completed every category of a written page has its row in the
\* table of categories
C29_RefreshAfterLastWrite ==
  (Scraping /\ scrape.pc \in {"insert", "done"} /\ WrittenPages # <<>>) =>
    LET n == Len(scrape.calls)
        call == scrape.calls[n]
    IN /\ call.op = "refreshCategories"
       /\ \A k \in 1..(n - 1) : scrape.calls[k].op = "upsertPages"
       /\ pages = call.pages
       /\ \A k \in DOMAIN WrittenPages :
            \E r \in call.pages : r.title = WrittenPages[k].title
       /\ scrape.pc = "done" =>
            \A k \in DOMAIN WrittenPages :
              \A i \in DOMAIN WrittenPages[k].categories :
                \E row \in categories :
                  /\ row.name = WrittenPages[k].categories[i]
                  /\ row.page_count >= 1

\* a run has completed that wrote a batch inside the loop and one after
\* it, and the pages written carry categories
C29_Witness ==
  /\ Scraping
  /\ scrape.pc = "done"
  /\ Len(WrittenBatches) >= 2
  /\ scrape.calls[Len(scrape.calls) - 1].op = "upsertPages"
  /\ \E k \in DOMAIN WrittenPages : WrittenPages[k].categories # <<>>
  /\ categories # {}

\* the requests of the run that yielded no content
FailedRequests == {k \in DOMAIN scrape.requests : scrape.requests[k].kind # "page"}

\* C30: a page whose request is answered with an error, without wikitext
\* or by a raised error is counted in failed and nothing is written for
\* it; the loop goes on with the titles that remain, and when the run
\* completes every title was processed and every page fetched with at
\* least 20 characters of text is stored
C30_FailedFetchIsSkipped ==
  (Scraping /\ scrape.pc # "raised" /\ ~scrape.early) =>
    /\ scrape.failed = Cardinality(FailedRequests)
    /\ scrape.processed = Len(scrape.requests)
    /\ \A k \in FailedRequests :
         LET t == scrape.requests[k].title IN
         /\ \A j \in DOMAIN WrittenPages : WrittenPages[j].title # t
         /\ {r \in pages : r.title = t} = {r \in scrape.start.pages : r.title = t}
    /\ scrape.processed + Len(scrape.todo) =
         scrape.total + (IF scrape.pc = "parsing" THEN 1 ELSE 0)
    /\ scrape.pc = "done" =>
         /\ scrape.processed = scrape.total
         /\ \A k \in DOMAIN scrape.requests :
              LET q == scrape.requests[k] IN
              (q.kind = "page" /\ q.chars >= 20) =>
                \E r \in pages : r.title = q.title /\ Len(r.content) = q.chars

\* a run has completed in which a request raised between two pages that
\* were fetched and stored
C30_Witness ==
  /\ Scraping
  /\ scrape.pc = "done"
  /\ \E k \in FailedRequests :
       /\ scrape.requests[k].kind = "raised"
       /\ \E i \in 1..(k - 1) : \E j \in (k + 1)..Len(scrape.requests) :
            /\ \E r \in pages : r.title = scrape.requests[i].title
            /\ \E r \in pages : r.title = scrape.requests[j].title
            /\ scrape.requests[i].title \notin
                 {r.title : r \in scrape.start.pages}
            /\ scrape.requests[j].title \notin
                 {r.title : r \in scrape.start.pages}

====
